---- MODULE Spec2Model ----
(***************************************************************************)
(* The function evaluator of the interpreter (interpreter/runner.rs):      *)
(* run_function drives execute_block over a value stack, a control-frame   *)
(* stack, the locals and the shared instruction position.  The nested      *)
(* execute_block invocations of the Rust call stack are the sequence       *)
(* `calls`; one action per opcode handler and one per arm of the           *)
(* dispatcher's match.                                                     *)
(***************************************************************************)
EXTENDS Integers, Sequences, FiniteSets, TLC

\* ---------------------------------------------------------------- bounds
\* Instructions dispatched in one call before the model stops following it.
MaxSteps == 40
\* The argument of the call is I32(a) for a in 0..MaxArg.
MaxArg == 3

\* The memory of the module instance has MemPages pages, at most MemMax.
MemPages == 1
MemMax == 2

\* ---------------------------------------------------------------- values
MaxI32 == 2147483647
MinI32 == (-MaxI32) - 1

I32(v) == [tag |-> "I32", val |-> v]
\* An I64 holds the small magnitudes the bodies below use.
I64(v) == [tag |-> "I64", val |-> v]
\* Option::None where an Option<RuntimeValue> is held.
NoValue == [tag |-> "None", val |-> 0]

\* i32 wrapping subtraction, computed without leaving the 32-bit range.
I32WrappingSub(a, b) ==
    IF b > 0 /\ a < MinI32 + b THEN ((a - MinI32) + (MaxI32 - b)) + 1
    ELSE IF b < 0 /\ a > MaxI32 + b THEN ((a - MaxI32) + (MinI32 - b)) - 1
    ELSE a - b

\* A u32 as its two 16-bit halves, so that every u32 is representable.
Half == 65536
U32(hi, lo) == [hi |-> hi, lo |-> lo]
\* `as u32` of an i32: the same bit pattern.
U32FromI32(v) == U32((v \div Half) % Half, v % Half)
\* Option<u32>
NoneU32 == [some |-> FALSE, value |-> U32(0, 0)]
SomeU32(u) == [some |-> TRUE, value |-> u]
\* u32::checked_add
checked_add(a, b) ==
    LET lo == a.lo + b.lo
        hi == a.hi + b.hi + (lo \div Half)
    IN IF hi >= Half THEN NoneU32 ELSE SomeU32(U32(hi, lo % Half))
\* 1u32.checked_shl(rhs): None when rhs is 32 or more.
checked_shl(rhs) ==
    IF rhs >= 32 THEN NoneU32
    ELSE IF rhs < 16 THEN SomeU32(U32(0, 2 ^ rhs))
    ELSE SomeU32(U32(2 ^ (rhs - 16), 0))

\* --------------------------------------------------------------- opcodes
\* BlockType: "NoResult", or the value type T of Value(T).
\* arg and arg2 are the immediates of an opcode in the order of its
\* declaration; table is the label vector of BrTable.  A u32 immediate is
\* held as the i32 of the same bit pattern.
Op(name) ==
    [op |-> name, bt |-> "NoResult", arg |-> 0, arg2 |-> 0, table |-> <<>>,
     body |-> <<>>]
OpArg(name, n) == [Op(name) EXCEPT !.arg = n]
OpBody(name, block_type, ops) == [Op(name) EXCEPT !.bt = block_type, !.body = ops]

Unreachable == Op("Unreachable")
Nop == Op("Nop")
Else == Op("Else")
End == Op("End")
Return == Op("Return")
Drop == Op("Drop")
I32Sub == Op("I32Sub")
Block(block_type, ops) == OpBody("Block", block_type, ops)
Loop(block_type, ops) == OpBody("Loop", block_type, ops)
If(block_type, ops) == OpBody("If", block_type, ops)
Br(idx) == OpArg("Br", idx)
BrIf(idx) == OpArg("BrIf", idx)
GetLocal(index) == OpArg("GetLocal", index)
SetLocal(index) == OpArg("SetLocal", index)
TeeLocal(index) == OpArg("TeeLocal", index)
I32Const(val) == OpArg("I32Const", val)
I64Const(val) == OpArg("I64Const", val)
BrTable(table, default) == [Op("BrTable") EXCEPT !.table = table, !.arg = default]
Call(index) == OpArg("Call", index)
CallIndirect(index) == OpArg("CallIndirect", index)
Select == Op("Select")
I32Load(offset, align) == [Op("I32Load") EXCEPT !.arg = offset, !.arg2 = align]
I64Load(offset, align) == [Op("I64Load") EXCEPT !.arg = offset, !.arg2 = align]
I32Store(offset, align) == [Op("I32Store") EXCEPT !.arg = offset, !.arg2 = align]
I64Store(offset, align) == [Op("I64Store") EXCEPT !.arg = offset, !.arg2 = align]
CurrentMemory == Op("CurrentMemory")
GrowMemory == Op("GrowMemory")
I32DivS == Op("I32DivS")
I32DivU == Op("I32DivU")
I64DivS == Op("I64DivS")
I64DivU == Op("I64DivU")
F32Copysign == Op("F32Copysign")
F64Copysign == Op("F64Copysign")
I32LtS == Op("I32LtS")
I32GtS == Op("I32GtS")
I32LeS == Op("I32LeS")
I32GeS == Op("I32GeS")
I32RemS == Op("I32RemS")
I32Shl == Op("I32Shl")
I32ShrS == Op("I32ShrS")
I32Rotl == Op("I32Rotl")
I32Rotr == Op("I32Rotr")

\* ------------------------------------------------------ instruction outcome
NoOutcome == [kind |-> "None", index |-> 0]
RunInstruction == [kind |-> "RunInstruction", index |-> 0]
RunNextInstruction == [kind |-> "RunNextInstruction", index |-> 0]
PopFrame(n) == [kind |-> "PopFrame", index |-> n]
ReturnOutcome == [kind |-> "Return", index |-> 0]

\* -------------------------------------------------------------- programs
\* The bodies run_function is called with, each with the return type of its
\* signature (one I32 parameter, as run_function_i32 of the tests).  The
\* first six are the bodies of the tests of runner.rs.  Every body ends with
\* End, and in none does an instruction consume a value pushed before the
\* construct it is in was entered.
TrapBody == <<Unreachable, End>>
NopBody == <<Nop, I32Const(20), Nop, End>>
IfThenBody ==
    <<I32Const(20), GetLocal(0), If("I32", <<I32Const(10), End>>), End>>
IfThenElseBody ==
    <<GetLocal(0), If("I32", <<I32Const(10), Else, I32Const(20), End>>), End>>
ReturnFromIfBody ==
    <<GetLocal(0), If("I32", <<I32Const(20), Return, End>>), I32Const(10), End>>
BlockBody == <<Block("I32", <<I32Const(10), End>>), End>>
\* Return two constructs deep, with a value of the enclosing body below.
NestedReturnBody ==
    <<I32Const(7),
      Block("NoResult",
            <<GetLocal(0), If("NoResult", <<I32Const(9), Return, End>>), End>>),
      Drop, I32Const(5), End>>
\* Return at the top level with a second value below the result.
ReturnResidueBody == <<I32Const(1), GetLocal(0), Return, End>>
NestedTrapBody ==
    <<GetLocal(0),
      If("NoResult", <<Block("NoResult", <<Unreachable, End>>), End>>),
      I32Const(3), End>>
LoopEndBody == <<Loop("NoResult", <<Nop, End>>), I32Const(1), End>>
CountdownBody ==
    <<Loop("NoResult",
           <<GetLocal(0), I32Const(1), I32Sub, TeeLocal(0), BrIf(0), End>>),
      GetLocal(0), End>>
\* The loop of the loop-via-br scenario as written, with signature I32 and
\* an accumulator below it.
CountdownI32Body ==
    <<I32Const(1),
      Loop("I32",
           <<GetLocal(0), I32Const(1), I32Sub, TeeLocal(0), BrIf(0), End>>),
      End>>
BrBlockBody == <<Block("I32", <<GetLocal(0), Br(0), End>>), End>>
\* br 1 to a Value(I32) block through a NoResult block.
BrThroughNoResultBody ==
    <<Block("I32",
            <<I32Const(5),
              Block("NoResult", <<GetLocal(0), Br(1), End>>), End>>),
      End>>
\* br 1 to a NoResult block through a Value(I32) block.
BrThroughValueBody ==
    <<GetLocal(0),
      Block("NoResult", <<Block("I32", <<Br(1), End>>), Drop, End>>),
      End>>
\* The same with nothing on the value stack when br executes.
BrThroughValueEmptyBody ==
    <<Block("NoResult", <<Block("I32", <<Br(1), End>>), Drop, End>>),
      GetLocal(0), End>>
\* A loop left by br to the enclosing block and re-entered by br from an if.
BrLoopBody ==
    <<Block("NoResult",
            <<Loop("NoResult",
                   <<GetLocal(0),
                     If("NoResult",
                        <<GetLocal(0), I32Const(1), I32Sub, SetLocal(0),
                          Br(1), End>>),
                     Br(1), End>>),
              End>>),
      GetLocal(0), End>>
BrIfArmsBody ==
    <<I32Const(3), GetLocal(0),
      If("I32", <<I32Const(10), Br(0), Else, I32Const(20), Br(0), End>>),
      Drop, End>>
\* Two ifs with an else: one takes the then-arm, the other the else-arm.
IfElseTwiceBody ==
    <<GetLocal(0), If("I32", <<I32Const(10), Else, I32Const(20), End>>), Drop,
      I32Const(0), If("I32", <<I32Const(11), Else, I32Const(21), End>>), End>>
\* A block entered with a value below it.
BlockKeepsBody ==
    <<I32Const(1),
      Block("I32", <<GetLocal(0), I32Const(2), I32Sub, End>>),
      I32Sub, End>>
\* A Value(I32) block entered with the argument below it, whose body holds
\* a br 1 through a Value(I32) block before it reaches its End.
BlockAroundBrBody ==
    <<GetLocal(0),
      Block("I32",
            <<Block("NoResult", <<Block("I32", <<Br(1), End>>), Drop, End>>),
              I32Const(9), End>>),
      Drop, End>>
\* The same br inside the then-arm of an if with an else.
IfElseAroundBrBody ==
    <<I32Const(6), GetLocal(0),
      If("I32",
         <<Block("NoResult", <<Block("I32", <<Br(1), End>>), Drop, End>>),
           I32Const(10), Else, I32Const(20), End>>),
      I32Sub, End>>
\* Two ifs without an else: one taken, the other not.
IfThenTwiceBody ==
    <<I32Const(20), GetLocal(0),
      If("NoResult", <<I32Const(1), SetLocal(0), End>>),
      I32Const(0),
      If("NoResult", <<I32Const(2), SetLocal(0), End>>),
      End>>
\* The br 1 through a Value(I32) block inside an if without an else.
IfAroundBrBody ==
    <<GetLocal(0), GetLocal(0),
      If("NoResult",
         <<Block("NoResult", <<Block("I32", <<Br(1), End>>), Drop, End>>),
           End>>),
      End>>
\* br_table in three nested blocks: label 0 leads to 10, 1 to 20, 2 to 30.
BrTableBodyOf(index, table, default) ==
    <<Block("NoResult",
            <<Block("NoResult",
                    <<Block("NoResult",
                            <<index, BrTable(table, default), End>>),
                      I32Const(10), Return, End>>),
              I32Const(20), Return, End>>),
      I32Const(30), End>>
BrTableBody == BrTableBodyOf(GetLocal(0), <<1, 0>>, 2)
BrTableNegativeBody == BrTableBodyOf(I32Const(-1), <<1, 0>>, 2)
BrTableMinBody == BrTableBodyOf(I32Const(MinI32), <<1, 0>>, 2)
BrTableEmptyBody == BrTableBodyOf(GetLocal(0), <<>>, 1)
\* br_table carrying a value to Value(I32) blocks.
BrTableValueBody ==
    <<Block("I32",
            <<Block("I32",
                    <<I32Const(5), GetLocal(0), BrTable(<<0, 1>>, 0), End>>),
              Drop, I32Const(6), End>>),
      End>>
SelectBody ==
    <<I32Const(7), I32Const(10), I32Const(20), GetLocal(0), Select, End>>
SelectI64Body ==
    <<I64Const(1),
      Block("I64", <<I64Const(5), I64Const(6), GetLocal(0), Select, End>>),
      End>>
TeeLocalBody ==
    <<I32Const(7), GetLocal(0), I32Const(1), I32Sub, TeeLocal(1), I32Sub,
      End>>
CurrentMemoryBody ==
    <<GetLocal(0), GrowMemory, Drop, CurrentMemory, Drop, I32Const(1), End>>
GrowMemoryBody == <<GetLocal(0), GrowMemory, End>>
\* A load whose base operand is the argument of the call.
LoadBody(offset, align) == <<GetLocal(0), I32Load(offset, align), End>>
LoadI64Body == <<GetLocal(0), I64Load(8, 0), End>>
\* A store of the argument at address 0 + 16, then a load from there.
StoreLoadBody ==
    <<I32Const(0), GetLocal(0), I32Store(16, 0),
      I32Const(0), I32Load(16, 0), End>>
StoreLoadI64Body ==
    <<I32Const(0), I64Const(7), I64Store(16, 0),
      I32Const(0), I64Load(16, 0), End>>
\* An opcode that is not implemented, three constructs deep when the
\* argument is non-zero and at the top level when it is zero.
NotImplementedBody(op) ==
    <<I32Const(5), I32Const(6), GetLocal(0),
      If("NoResult",
         <<Block("NoResult", <<Loop("NoResult", <<op, End>>), End>>), End>>),
      op, Drop, End>>
\* A function with one declared local beside its parameter.
DeclaredLocalBody == <<GetLocal(1), End>>
SetDeclaredLocalBody == <<GetLocal(0), SetLocal(1), GetLocal(1), End>>
\* A local instruction in a function of two parameters.
LocalIndexBody(op) == <<I32Const(9), op, GetLocal(0), End>>
\* An i64 function: the br 1 leaves the inner Block(I64) for the end of the
\* NoResult block around it, with the function's value below both.
ResultI64Body ==
    <<I64Const(7),
      Block("NoResult", <<Block("I64", <<Br(1), End>>), Drop, End>>),
      End>>
\* A function without a return type.
NoResultBody ==
    <<GetLocal(0), If("NoResult", <<I32Const(4), Return, End>>), End>>

Programs ==
    << [params |-> 1, locals |-> 0, ret |-> "I32", body |-> TrapBody],
       [params |-> 1, locals |-> 0, ret |-> "I32", body |-> NopBody],
       [params |-> 1, locals |-> 0, ret |-> "I32", body |-> IfThenBody],
       [params |-> 1, locals |-> 0, ret |-> "I32", body |-> IfThenElseBody],
       [params |-> 1, locals |-> 0, ret |-> "I32", body |-> ReturnFromIfBody],
       [params |-> 1, locals |-> 0, ret |-> "I32", body |-> BlockBody],
       [params |-> 1, locals |-> 0, ret |-> "I32", body |-> NestedReturnBody],
       [params |-> 1, locals |-> 0, ret |-> "I32", body |-> ReturnResidueBody],
       [params |-> 1, locals |-> 0, ret |-> "I32", body |-> NestedTrapBody],
       [params |-> 1, locals |-> 0, ret |-> "I32", body |-> LoopEndBody],
       [params |-> 1, locals |-> 0, ret |-> "I32", body |-> CountdownBody],
       [params |-> 1, locals |-> 0, ret |-> "I32", body |-> CountdownI32Body],
       [params |-> 1, locals |-> 0, ret |-> "I32", body |-> BrBlockBody],
       [params |-> 1, locals |-> 0, ret |-> "I32", body |-> BrThroughNoResultBody],
       [params |-> 1, locals |-> 0, ret |-> "I32", body |-> BrThroughValueBody],
       [params |-> 1, locals |-> 0, ret |-> "I32", body |-> BrThroughValueEmptyBody],
       [params |-> 1, locals |-> 0, ret |-> "I32", body |-> BrLoopBody],
       [params |-> 1, locals |-> 0, ret |-> "I32", body |-> BrIfArmsBody],
       [params |-> 1, locals |-> 0, ret |-> "I32", body |-> IfElseTwiceBody],
       [params |-> 1, locals |-> 0, ret |-> "I32", body |-> BlockKeepsBody],
       [params |-> 1, locals |-> 0, ret |-> "I32", body |-> BlockAroundBrBody],
       [params |-> 1, locals |-> 0, ret |-> "I32", body |-> IfElseAroundBrBody],
       [params |-> 1, locals |-> 0, ret |-> "I32", body |-> IfThenTwiceBody],
       [params |-> 1, locals |-> 0, ret |-> "I32", body |-> IfAroundBrBody],
       [params |-> 1, locals |-> 0, ret |-> "NoResult", body |-> NoResultBody],
       [params |-> 1, locals |-> 0, ret |-> "I32", body |-> BrTableBody],
       [params |-> 1, locals |-> 0, ret |-> "I32", body |-> BrTableNegativeBody],
       [params |-> 1, locals |-> 0, ret |-> "I32", body |-> BrTableMinBody],
       [params |-> 1, locals |-> 0, ret |-> "I32", body |-> BrTableEmptyBody],
       [params |-> 1, locals |-> 0, ret |-> "I32", body |-> BrTableValueBody],
       [params |-> 1, locals |-> 0, ret |-> "I32", body |-> SelectBody],
       [params |-> 1, locals |-> 0, ret |-> "I64", body |-> SelectI64Body],
       [params |-> 2, locals |-> 0, ret |-> "I32", body |-> TeeLocalBody],
       [params |-> 1, locals |-> 0, ret |-> "I32", body |-> CurrentMemoryBody],
       [params |-> 1, locals |-> 0, ret |-> "I32", body |-> GrowMemoryBody],
       [params |-> 1, locals |-> 0, ret |-> "I32", body |-> LoadBody(0, 0)],
       [params |-> 1, locals |-> 0, ret |-> "I32", body |-> LoadBody(8, 0)],
       [params |-> 1, locals |-> 0, ret |-> "I32", body |-> LoadBody(8, 1)],
       [params |-> 1, locals |-> 0, ret |-> "I32", body |-> LoadBody(8, 3)],
       [params |-> 1, locals |-> 0, ret |-> "I32", body |-> LoadBody(-1, 0)],
       [params |-> 1, locals |-> 0, ret |-> "I32", body |-> LoadBody(-1, 1)],
       [params |-> 1, locals |-> 0, ret |-> "I32", body |-> LoadBody(0, 33)],
       [params |-> 1, locals |-> 0, ret |-> "I64", body |-> LoadI64Body],
       [params |-> 1, locals |-> 0, ret |-> "I32", body |-> StoreLoadBody],
       [params |-> 1, locals |-> 0, ret |-> "I64", body |-> StoreLoadI64Body],
       [params |-> 1, locals |-> 0, ret |-> "I32", body |-> NotImplementedBody(Call(0))],
       [params |-> 1, locals |-> 0, ret |-> "I32", body |-> NotImplementedBody(CallIndirect(0))],
       [params |-> 1, locals |-> 0, ret |-> "I32", body |-> NotImplementedBody(F32Copysign)],
       [params |-> 1, locals |-> 0, ret |-> "I32", body |-> NotImplementedBody(F64Copysign)],
       [params |-> 1, locals |-> 1, ret |-> "I32", body |-> DeclaredLocalBody],
       [params |-> 1, locals |-> 1, ret |-> "I32", body |-> SetDeclaredLocalBody],
       [params |-> 2, locals |-> 0, ret |-> "I32", body |-> LocalIndexBody(GetLocal(0))],
       [params |-> 2, locals |-> 0, ret |-> "I32", body |-> LocalIndexBody(GetLocal(2))],
       [params |-> 2, locals |-> 0, ret |-> "I32", body |-> LocalIndexBody(SetLocal(1))],
       [params |-> 2, locals |-> 0, ret |-> "I32", body |-> LocalIndexBody(SetLocal(2))],
       [params |-> 2, locals |-> 0, ret |-> "I32", body |-> LocalIndexBody(TeeLocal(1))],
       [params |-> 2, locals |-> 0, ret |-> "I32", body |-> LocalIndexBody(TeeLocal(3))],
       [params |-> 1, locals |-> 0, ret |-> "I64", body |-> ResultI64Body] >>

\* The operand pairs of the divisions, and the functions dividing them.
DivOperands == {MinI32, -1, 0, 1, 2, 7, MaxI32}
DivI64Operands == {0, 1, 7}
DivBody(left, right, op) == <<left, right, op, End>>
DivFunctions ==
    {[params |-> 1, locals |-> 0, ret |-> "I32",
      body |-> DivBody(I32Const(a), I32Const(b), op)] :
        a \in DivOperands, b \in DivOperands, op \in {I32DivS, I32DivU}}
    \cup
    {[params |-> 1, locals |-> 0, ret |-> "I64",
      body |-> DivBody(I64Const(a), I64Const(b), op)] :
        a \in DivI64Operands, b \in DivI64Operands, op \in {I64DivS, I64DivU}}

\* The operand pairs of the other binary opcodes, and the functions applying
\* them: [push a, push b, op].
BinaryOperands == {-8, 1, 3, 5}
ShiftCounts == {1, 3, 5}
BinaryBody(left, right, op) == <<I32Const(left), I32Const(right), op, End>>
BinaryFunctions ==
    {[params |-> 1, locals |-> 0, ret |-> "I32", body |-> BinaryBody(a, b, op)] :
        a \in BinaryOperands, b \in BinaryOperands,
        op \in {I32Sub, I32DivS, I32RemS, I32LtS, I32GtS, I32LeS, I32GeS}}
    \cup
    {[params |-> 1, locals |-> 0, ret |-> "I32", body |-> BinaryBody(a, b, op)] :
        a \in BinaryOperands, b \in ShiftCounts,
        op \in {I32Shl, I32ShrS, I32Rotl, I32Rotr}}

Functions ==
    {Programs[p] : p \in 1..Len(Programs)} \cup DivFunctions \cup BinaryFunctions

Args == 0..MaxArg
\* The arguments of a call of a function with n parameters.
ArgsOf(n, a) == [i \in 1..n |-> I32(a + 10 * (i - 1))]

\* ----------------------------------------------------------------- state
VARIABLES
    function,     \* the FunctionType and body run_function was called with
    value_stack,  \* FunctionContext.value_stack
    frame_stack,  \* FunctionContext.frame_stack
    locals,       \* FunctionContext.locals
    position,     \* FunctionContext.position
    module,       \* FunctionContext.module: the instance the call runs in
    calls,        \* the active execute_block invocations, innermost last
    outcome,      \* the InstructionOutcome handed to the innermost invocation
    pc,           \* "run", or "done" / "err" once run_function has returned
    result,       \* the Option<RuntimeValue> of Ok
    error,        \* the Error of Err
    trace,        \* history: the instructions dispatched, with the context
                  \* each was dispatched in
    modules,      \* ProgramInstanceEssence.modules: the HashMap in the RwLock
    rwlock,       \* the RwLock itself: its writer and its readers
    threads,      \* each thread's call of add_module / module, and where
                  \* in it the thread stands
    issued,       \* the calls made so far (the next Arc::new is issued + 1)
    registered,   \* history: per name, the instance of the first add_module
                  \* that returned Ok
    oks           \* history: per name, the add_module calls that returned Ok

\* The variables of a run_function call, and those of a ProgramInstance.
function_vars == <<function, value_stack, frame_stack, locals, position,
                   module, calls, outcome, pc, result, error, trace>>
registry == <<modules, rwlock, threads, issued, registered, oks>>
vars == <<function, value_stack, frame_stack, locals, position, module,
          calls, outcome, pc, result, error, trace,
          modules, rwlock, threads, issued, registered, oks>>

\* ------------------------------------------------------- FunctionContext
Ctx ==
    [value_stack |-> value_stack, frame_stack |-> frame_stack,
     locals |-> locals, position |-> position, module |-> module]

BlockFrame(pos, limit, sig) ==
    [position |-> pos, value_limit |-> limit, signature |-> sig]

Front(s) == SubSeq(s, 1, Len(s) - 1)
Last(s) == s[Len(s)]

\* VecDeque::resize(n, value): truncate, or pad with copies of value.
Resize(s, n, value) ==
    IF Len(s) >= n THEN SubSeq(s, 1, n)
    ELSE s \o [i \in 1..(n - Len(s)) |-> value]

push_value(c, value) == [c EXCEPT !.value_stack = Append(@, value)]

top_value(c) ==
    IF c.value_stack = <<>>
    THEN [error |-> "ValueStack", value |-> NoValue, ctx |-> c]
    ELSE [error |-> "", value |-> Last(c.value_stack), ctx |-> c]

pop_value(c) ==
    IF c.value_stack = <<>>
    THEN [error |-> "ValueStack", value |-> NoValue, ctx |-> c]
    ELSE [error |-> "", value |-> Last(c.value_stack),
          ctx |-> [c EXCEPT !.value_stack = Front(@)]]

\* RuntimeValue -> i32 / bool: only an I32 converts; a bool is val # 0.
pop_value_as(c) ==
    LET p == pop_value(c) IN
    IF p.error # "" THEN p
    ELSE IF p.value.tag # "I32" THEN [p EXCEPT !.error = "Value"]
    ELSE p

get_local(c, index) ==
    IF index < Len(c.locals)
    THEN [error |-> "", value |-> c.locals[index + 1], ctx |-> c]
    ELSE [error |-> "Local", value |-> NoValue, ctx |-> c]

\* Mutant: a local beyond the vector is created, the vector growing to it.
set_local_grows(c, index, value) ==
    IF index < Len(c.locals)
    THEN [error |-> "", ctx |-> [c EXCEPT !.locals[index + 1] = value]]
    ELSE [error |-> "",
          ctx |-> [c EXCEPT !.locals = Append(Resize(@, index, I32(0)), value)]]

set_local(c, index, value) ==
    IF index < Len(c.locals)
    THEN [error |-> "", ctx |-> [c EXCEPT !.locals[index + 1] = value]]
    ELSE [error |-> "Local", ctx |-> c]

\* Mutant: the limit recorded is one above the depth of the value stack.
push_frame_limit_above(c, pos, sig) ==
    [c EXCEPT !.frame_stack =
        Append(@, BlockFrame(pos, Len(c.value_stack) + 1, sig))]

push_frame(c, pos, sig) ==
    [c EXCEPT !.frame_stack =
        Append(@, BlockFrame(pos, Len(c.value_stack), sig))]

pop_frame(c) ==
    IF c.frame_stack = <<>> THEN [error |-> "FrameStack", ctx |-> c]
    ELSE
      LET frame == Last(c.frame_stack)
          c1 == [c EXCEPT !.frame_stack = Front(@)]
      IN
      IF frame.value_limit > Len(c1.value_stack)
      THEN [error |-> "FrameStack", ctx |-> c1]
      ELSE
        LET p == IF frame.signature # "NoResult" THEN pop_value(c1)
                 ELSE [error |-> "", value |-> NoValue, ctx |-> c1]
        IN
        IF p.error # "" THEN [error |-> p.error, ctx |-> p.ctx]
        ELSE
          LET c2 == [p.ctx EXCEPT
                       !.value_stack = Resize(@, frame.value_limit, I32(0)),
                       !.position = frame.position]
          IN [error |-> "",
              ctx |-> IF frame.signature # "NoResult"
                      THEN push_value(c2, p.value) ELSE c2]


\* pop_value_as::<T> for the value type T.
pop_value_as_T(c, T) ==
    LET p == pop_value(c) IN
    IF p.error # "" THEN p
    ELSE IF p.value.tag # T THEN [p EXCEPT !.error = "Value"]
    ELSE p

\* pop_value_pair_as::<T>: right is popped first, then left.
pop_value_pair_as_T(c, T) ==
    LET r == pop_value_as_T(c, T) IN
    IF r.error # ""
    THEN [error |-> r.error, left |-> NoValue, right |-> NoValue, ctx |-> r.ctx]
    ELSE LET l == pop_value_as_T(r.ctx, T) IN
         [error |-> l.error, left |-> l.value, right |-> r.value, ctx |-> l.ctx]

\* pop_value_triple: right is popped first, then mid, then left.
pop_value_triple(c) ==
    LET r == pop_value(c) IN
    IF r.error # ""
    THEN [error |-> r.error, left |-> NoValue, mid |-> NoValue,
          right |-> NoValue, ctx |-> r.ctx]
    ELSE LET m == pop_value(r.ctx) IN
         IF m.error # ""
         THEN [error |-> m.error, left |-> NoValue, mid |-> NoValue,
               right |-> NoValue, ctx |-> m.ctx]
         ELSE LET l == pop_value(m.ctx) IN
              [error |-> l.error, left |-> l.value, mid |-> m.value,
               right |-> r.value, ctx |-> l.ctx]

\* -------------------------------------------------------- module instance
\* The linear memory of an instance: its size in pages of 64 KiB, the cap
\* on its growth, and the bytes written so far (every other byte is zero).
MemoryInstance(pages, max) == [pages |-> pages, max |-> max, data |-> {}]
\* The instance a call borrows: its memories, and the history of the
\* accesses made to memory 0.
ModuleInstance(memories) == [memory |-> memories, accessed |-> <<>>]

\* The instances a call may run in: without a memory, and with memory 0.
Modules ==
    {ModuleInstance(<<>>), ModuleInstance(<<MemoryInstance(MemPages, MemMax)>>)}

\* ModuleInstance::memory(ItemIndex::IndexSpace(0))
memory(instance) ==
    IF instance.memory = <<>>
    THEN [error |-> "Memory", value |-> MemoryInstance(0, 0)]
    ELSE [error |-> "", value |-> instance.memory[1]]

\* The u32 address addr + i for a small i.
AddrPlus(addr, i) == checked_add(addr, U32(0, i))
\* addr + n overflows, or lies beyond the current size of m.
OutOfBounds(m, addr, n) ==
    LET end == AddrPlus(addr, n) IN
    \/ ~end.some
    \/ end.value.hi > m.pages
    \/ end.value.hi = m.pages /\ end.value.lo > 0
ByteAt(m, addr) ==
    IF \E w \in m.data : w.addr = addr
    THEN (CHOOSE w \in m.data : w.addr = addr).byte
    ELSE 0

\* MemoryInstance::get(addr, n)
memory_get(m, addr, n) ==
    IF OutOfBounds(m, addr, n) THEN [error |-> "Trap", bytes |-> <<>>]
    ELSE [error |-> "",
          bytes |-> [i \in 1..n |-> ByteAt(m, AddrPlus(addr, i - 1).value)]]

\* MemoryInstance::set(addr, bytes)
memory_set(m, addr, bytes) ==
    IF OutOfBounds(m, addr, Len(bytes)) THEN [error |-> "Trap", memory |-> m]
    ELSE LET at == {AddrPlus(addr, i - 1).value : i \in 1..Len(bytes)} IN
         [error |-> "",
          memory |-> [m EXCEPT !.data =
              {w \in @ : w.addr \notin at} \cup
              {[addr |-> AddrPlus(addr, i - 1).value, byte |-> bytes[i]] :
                 i \in 1..Len(bytes)}]]

\* MemoryInstance::size()
memory_size(m) == m.pages

\* MemoryInstance::grow(delta): the previous size, or -1 with the memory
\* unchanged when the new size would exceed the cap.
memory_grow(m, delta) ==
    IF delta.hi = 0 /\ m.pages + delta.lo <= m.max
    THEN [result |-> m.pages, memory |-> [m EXCEPT !.pages = @ + delta.lo]]
    ELSE [result |-> -1, memory |-> m]

\* The access is added to the history of the instance.
Accessed(c, kind, addr, n) ==
    [c EXCEPT !.module.accessed =
        Append(@, [kind |-> kind, addr |-> addr, n |-> n])]

effective_address(offset, align) ==
    IF align = 0 THEN [error |-> "", value |-> U32FromI32(offset)]
    ELSE LET shifted == IF align >= 1 THEN checked_shl(align - 1) ELSE NoneU32
             sum == IF shifted.some
                    THEN checked_add(shifted.value, U32FromI32(offset))
                    ELSE NoneU32
         IN IF sum.some THEN [error |-> "", value |-> sum.value]
            ELSE [error |-> "Interpreter", value |-> U32(0, 0)]

\* unimplemented!(): the thread panics, whatever the argument.
to_little_endian_bytes(number) == [panic |-> TRUE, bytes |-> <<>>]
from_little_endian_bytes(buffer) == [panic |-> TRUE, value |-> NoValue]

\* ------------------------------------------------------ opcode handlers
\* A handler's Result<InstructionOutcome, Error> with the context it leaves.
Ok(o, c) == [error |-> "", outcome |-> o, ctx |-> c]
Err(e, c) == [error |-> e, outcome |-> NoOutcome, ctx |-> c]

\* Mutant: the trap is swallowed and execution goes on.
run_unreachable_continues(c) == Ok(RunNextInstruction, c)

run_unreachable(c) == Err("Trap", c)

run_nop(c) == Ok(RunNextInstruction, c)

\* run_block, run_loop and run_if up to their call of execute_block.
\* Mutant: the frame of a block resumes one instruction too far.
run_block_resumes_past(c, block_type) ==
    push_frame(c, c.position + 2, block_type)

run_block(c, block_type) == push_frame(c, c.position + 1, block_type)

\* Mutant: the loop body is entered without a frame of its own.
run_loop_without_frame(c, block_type) == c

run_loop(c, block_type) == push_frame(c, c.position, block_type)

\* 0-based index of the first Else of body, or body_len - 1.
ElseIndex(body) ==
    IF \E i \in 1..Len(body) : body[i].op = "Else"
    THEN (CHOOSE i \in 1..Len(body) :
            /\ body[i].op = "Else"
            /\ \A j \in 1..(i - 1) : body[j].op # "Else") - 1
    ELSE Len(body) - 1

\* Mutant: the condition is read inverted.
run_if_inverted(c, block_type, body) ==
    LET p == pop_value_as(c)
        else_index == ElseIndex(body)
        condition == p.value.val = 0
        begin_index == IF condition THEN 0 ELSE else_index + 1
        end_index == IF condition THEN else_index + 1 ELSE Len(body)
    IN
    IF p.error # ""
    THEN [error |-> p.error, enter |-> FALSE, begin_index |-> 0,
          end_index |-> 0, ctx |-> p.ctx]
    ELSE IF begin_index # end_index
    THEN [error |-> "", enter |-> TRUE, begin_index |-> begin_index,
          end_index |-> end_index,
          ctx |-> push_frame(p.ctx, p.ctx.position + 1, block_type)]
    ELSE [error |-> "", enter |-> FALSE, begin_index |-> begin_index,
          end_index |-> end_index, ctx |-> p.ctx]

\* Mutant: a frame is pushed and the arm entered even when it is empty.
run_if_always_enters(c, block_type, body) ==
    LET p == pop_value_as(c)
        else_index == ElseIndex(body)
        condition == p.value.val # 0
        begin_index == IF condition THEN 0 ELSE else_index + 1
        end_index == IF condition THEN else_index + 1 ELSE Len(body)
    IN
    IF p.error # ""
    THEN [error |-> p.error, enter |-> FALSE, begin_index |-> 0,
          end_index |-> 0, ctx |-> p.ctx]
    ELSE IF TRUE
    THEN [error |-> "", enter |-> TRUE, begin_index |-> begin_index,
          end_index |-> end_index,
          ctx |-> push_frame(p.ctx, p.ctx.position + 1, block_type)]
    ELSE [error |-> "", enter |-> FALSE, begin_index |-> begin_index,
          end_index |-> end_index, ctx |-> p.ctx]

\* run_if: the arm [begin_index, end_index) selected, and whether
\* execute_block is called on it.
run_if(c, block_type, body) ==
    LET p == pop_value_as(c)
        else_index == ElseIndex(body)
        condition == p.value.val # 0
        begin_index == IF condition THEN 0 ELSE else_index + 1
        end_index == IF condition THEN else_index + 1 ELSE Len(body)
    IN
    IF p.error # ""
    THEN [error |-> p.error, enter |-> FALSE, begin_index |-> 0,
          end_index |-> 0, ctx |-> p.ctx]
    ELSE IF begin_index # end_index
    THEN [error |-> "", enter |-> TRUE, begin_index |-> begin_index,
          end_index |-> end_index,
          ctx |-> push_frame(p.ctx, p.ctx.position + 1, block_type)]
    ELSE [error |-> "", enter |-> FALSE, begin_index |-> begin_index,
          end_index |-> end_index, ctx |-> p.ctx]

run_else(c) == Ok(PopFrame(0), c)

run_end(c) == Ok(PopFrame(0), c)

run_br(c, label_idx) == Ok(PopFrame(label_idx), c)

run_br_if(c, label_idx) ==
    LET p == pop_value_as(c) IN
    IF p.error # "" THEN Err(p.error, p.ctx)
    ELSE IF p.value.val # 0 THEN Ok(PopFrame(label_idx), p.ctx)
    ELSE Ok(RunNextInstruction, p.ctx)

\* Mutant: Return leaves only the innermost block, as End does.
run_return_as_end(c) == Ok(PopFrame(0), c)

run_return(c) == Ok(ReturnOutcome, c)

run_drop(c) ==
    LET p == pop_value(c) IN
    IF p.error # "" THEN Err(p.error, p.ctx)
    ELSE Ok(RunNextInstruction, p.ctx)

run_get_local(c, index) ==
    LET g == get_local(c, index) IN
    IF g.error # "" THEN Err(g.error, c)
    ELSE Ok(RunNextInstruction, push_value(c, g.value))

run_set_local(c, index) ==
    LET p == pop_value(c) IN
    IF p.error # "" THEN Err(p.error, p.ctx)
    ELSE LET s == set_local(p.ctx, index, p.value) IN
         IF s.error # "" THEN Err(s.error, s.ctx)
         ELSE Ok(RunNextInstruction, s.ctx)

\* Mutant: the value is popped, as set_local does.
run_tee_local_pops(c, index) ==
    LET t == pop_value(c) IN
    IF t.error # "" THEN Err(t.error, c)
    ELSE LET s == set_local(t.ctx, index, t.value) IN
         IF s.error # "" THEN Err(s.error, s.ctx)
         ELSE Ok(RunNextInstruction, s.ctx)

run_tee_local(c, index) ==
    LET t == top_value(c) IN
    IF t.error # "" THEN Err(t.error, c)
    ELSE LET s == set_local(c, index, t.value) IN
         IF s.error # "" THEN Err(s.error, s.ctx)
         ELSE Ok(RunNextInstruction, s.ctx)

run_const(c, val) == Ok(RunNextInstruction, push_value(c, val))

\* Mutant: the operand popped first is taken for the left one.
pop_value_pair_as_swapped(c) ==
    LET r == pop_value_as(c) IN
    IF r.error # ""
    THEN [error |-> r.error, left |-> NoValue, right |-> NoValue, ctx |-> r.ctx]
    ELSE LET l == pop_value_as(r.ctx) IN
         [error |-> l.error, left |-> r.value, right |-> l.value, ctx |-> l.ctx]

\* pop_value_pair_as: right is popped first, then left.
pop_value_pair_as(c) ==
    LET r == pop_value_as(c) IN
    IF r.error # ""
    THEN [error |-> r.error, left |-> NoValue, right |-> NoValue, ctx |-> r.ctx]
    ELSE LET l == pop_value_as(r.ctx) IN
         [error |-> l.error, left |-> l.value, right |-> r.value, ctx |-> l.ctx]

\* run_sub::<i32>
run_sub(c) ==
    LET p == pop_value_pair_as(c) IN
    IF p.error # "" THEN Err(p.error, p.ctx)
    ELSE Ok(RunNextInstruction,
            push_value(p.ctx, I32(I32WrappingSub(p.left.val, p.right.val))))

\* A handler that panics: run_function returns neither Ok nor Err.
Panic(c) == [error |-> "", outcome |-> NoOutcome, ctx |-> c, panic |-> TRUE]

\* Mutant: the last entry of the table is out of range.
run_br_table_off_by_one(c, table, default) ==
    LET p == pop_value_as(c)
        index == U32FromI32(p.value.val)
    IN
    IF p.error # "" THEN Err(p.error, p.ctx)
    ELSE IF index.hi = 0 /\ index.lo + 1 < Len(table)
    THEN Ok(PopFrame(table[index.lo + 1]), p.ctx)
    ELSE Ok(PopFrame(default), p.ctx)

\* table.get(index as usize).cloned().unwrap_or(default)
run_br_table(c, table, default) ==
    LET p == pop_value_as(c)
        index == U32FromI32(p.value.val)
    IN
    IF p.error # "" THEN Err(p.error, p.ctx)
    ELSE IF index.hi = 0 /\ index.lo < Len(table)
    THEN Ok(PopFrame(table[index.lo + 1]), p.ctx)
    ELSE Ok(PopFrame(default), p.ctx)

\* Mutant: the call is stubbed as an instruction without effect.
run_call_continues(c, func_idx) == Ok(RunNextInstruction, c)

run_call(c, func_idx) == Err("NotImplemented", c)

run_call_indirect(c, type_idx) == Err("NotImplemented", c)

run_copysign(c) == Err("NotImplemented", c)

\* Mutant: the two operands are taken in the other order.
run_select_swapped(c) ==
    LET t == pop_value_triple(c) IN
    IF t.error # "" THEN Err(t.error, t.ctx)
    ELSE IF t.right.tag # "I32" THEN Err("ValueStack", t.ctx)
    ELSE Ok(RunNextInstruction,
            push_value(t.ctx, IF t.right.val # 0 THEN t.mid ELSE t.left))

\* right.try_into(): only an I32 converts to the bool condition.
run_select(c) ==
    LET t == pop_value_triple(c) IN
    IF t.error # "" THEN Err(t.error, t.ctx)
    ELSE IF t.right.tag # "I32" THEN Err("ValueStack", t.ctx)
    ELSE Ok(RunNextInstruction,
            push_value(t.ctx, IF t.right.val # 0 THEN t.left ELSE t.mid))

\* run_load::<T>
run_load(c, T, offset, align) ==
    LET m == memory(c.module)
        a == effective_address(offset, align)
        g == memory_get(m.value, a.value, 4)
        n == from_little_endian_bytes(g.bytes)
    IN
    IF m.error # "" THEN Err(m.error, c)
    ELSE IF a.error # "" THEN Err(a.error, c)
    ELSE IF g.error # "" THEN Err(g.error, Accessed(c, "get", a.value, 4))
    ELSE IF n.panic THEN Panic(Accessed(c, "get", a.value, 4))
    ELSE Ok(RunNextInstruction,
            push_value(Accessed(c, "get", a.value, 4),
                       [tag |-> T, val |-> n.value.val]))

\* run_store::<T>
run_store(c, T, offset, align) ==
    LET p == pop_value_as_T(c, T)
        stack_value == to_little_endian_bytes(p.value)
        m == memory(p.ctx.module)
        a == effective_address(offset, align)
        w == memory_set(m.value, a.value, stack_value.bytes)
        c1 == Accessed(p.ctx, "set", a.value, Len(stack_value.bytes))
    IN
    IF p.error # "" THEN Err(p.error, p.ctx)
    ELSE IF stack_value.panic THEN Panic(p.ctx)
    ELSE IF m.error # "" THEN Err(m.error, p.ctx)
    ELSE IF a.error # "" THEN Err(a.error, p.ctx)
    ELSE IF w.error # "" THEN Err(w.error, c1)
    ELSE Ok(RunNextInstruction, [c1 EXCEPT !.module.memory[1] = w.memory])

run_current_memory(c) ==
    LET m == memory(c.module) IN
    IF m.error # "" THEN Err(m.error, c)
    ELSE Ok(RunNextInstruction, push_value(c, I64(memory_size(m.value))))

run_grow_memory(c) ==
    LET p == pop_value_as(c)
        m == memory(p.ctx.module)
        g == memory_grow(m.value, U32FromI32(p.value.val))
    IN
    IF p.error # "" THEN Err(p.error, p.ctx)
    ELSE IF m.error # "" THEN Err(m.error, p.ctx)
    ELSE Ok(RunNextInstruction,
            push_value([p.ctx EXCEPT !.module.memory[1] = g.memory],
                       I32(g.result)))

\* i32 `/`: the quotient truncated toward zero (b # 0, not MinI32 / -1).
DivS(a, b) ==
    LET pos(x, y) == IF x < 0 /\ x % y # 0 THEN (x \div y) + 1 ELSE x \div y
    IN IF b > 0 THEN pos(a, b)
       ELSE IF b = MinI32 THEN (IF a = MinI32 THEN 1 ELSE 0)
       ELSE -pos(a, -b)

\* u32 `/` on the bit patterns of a and b (b # 0), as a bit pattern.
DivU(a, b) ==
    IF b < 0 THEN (IF a < 0 /\ a >= b THEN 1 ELSE 0)
    ELSE IF a >= 0 THEN a \div b
    ELSE IF b = 1 THEN a
    ELSE LET r == a - MinI32
             m == ((MaxI32 \div 2) + 1) + (r \div 2)
             bit == r % 2
             q1 == m \div b
             rem1 == m % b
         IN 2 * q1 + (IF rem1 >= (b - rem1) - bit THEN 1 ELSE 0)

\* ArithmeticOps::div of the integer types after transmute_into: a zero
\* divisor, and the signed i32 MinI32 / -1, have no quotient.  Of the i64
\* only the non-negative magnitudes the bodies below use are covered.
div(T, signed, left, right) ==
    IF right = 0 \/ (signed /\ T = "I32" /\ left = MinI32 /\ right = -1)
    THEN [panic |-> TRUE, value |-> 0]
    ELSE [panic |-> FALSE,
          value |-> IF signed THEN DivS(left, right)
                    ELSE IF T = "I32" THEN DivU(left, right)
                    ELSE left \div right]

\* run_div::<T, U>: div returns a plain U, so run_div has no Err for it.
run_div(c, T, signed) ==
    LET p == pop_value_pair_as_T(c, T)
        v == div(T, signed, p.left.val, p.right.val)
    IN
    IF p.error # "" THEN Err(p.error, p.ctx)
    ELSE IF v.panic THEN Panic(p.ctx)
    ELSE Ok(RunNextInstruction, push_value(p.ctx, [tag |-> T, val |-> v.value]))

\* Bit i of the two's-complement pattern of an i32, and the i32 of a pattern.
Bit(v, i) ==
    IF i = 31 THEN (IF v < 0 THEN 1 ELSE 0)
    ELSE ((IF v < 0 THEN v - MinI32 ELSE v) \div 2^i) % 2
RECURSIVE SumBits(_, _)
SumBits(b, i) == IF i < 0 THEN 0 ELSE b[i] * 2^i + SumBits(b, i - 1)
FromBits(b) == SumBits(b, 30) + (IF b[31] = 1 THEN MinI32 ELSE 0)

\* Integer::rem: the remainder of the truncating division; a zero divisor
\* has none, and MinI32 rem -1 is 0.
rem(left, right) ==
    IF right = 0 THEN [panic |-> TRUE, value |-> 0]
    ELSE IF right = -1 THEN [panic |-> FALSE, value |-> 0]
    ELSE [panic |-> FALSE, value |-> left - right * DivS(left, right)]
\* i32 << i32 and i32 >> i32, the count taken modulo 32.
shl(left, right) ==
    FromBits([i \in 0..31 |->
                IF i >= (right % 32) THEN Bit(left, i - (right % 32)) ELSE 0])
shr(left, right) ==
    FromBits([i \in 0..31 |->
                IF i + (right % 32) <= 31 THEN Bit(left, i + (right % 32))
                ELSE Bit(left, 31)])
\* Integer::rotl, Integer::rotr
rotl(left, right) == FromBits([i \in 0..31 |-> Bit(left, (i - right) % 32)])
rotr(left, right) == FromBits([i \in 0..31 |-> Bit(left, (i + right) % 32)])

\* The i32 binary handlers share a shape: pop_value_pair_as::<i32>, map the
\* pair to a value, push it.
PushMapped(p, value) ==
    IF p.error # "" THEN Err(p.error, p.ctx)
    ELSE Ok(RunNextInstruction, push_value(p.ctx, I32(value)))

run_lt(c) ==
    LET p == pop_value_pair_as(c) IN
    PushMapped(p, IF p.left.val < p.right.val THEN 1 ELSE 0)
run_gt(c) ==
    LET p == pop_value_pair_as(c) IN
    PushMapped(p, IF p.left.val > p.right.val THEN 1 ELSE 0)
run_lte(c) ==
    LET p == pop_value_pair_as(c) IN
    PushMapped(p, IF p.left.val <= p.right.val THEN 1 ELSE 0)
run_gte(c) ==
    LET p == pop_value_pair_as(c) IN
    PushMapped(p, IF p.left.val >= p.right.val THEN 1 ELSE 0)
run_shl(c) ==
    LET p == pop_value_pair_as(c) IN PushMapped(p, shl(p.left.val, p.right.val))
run_shr(c) ==
    LET p == pop_value_pair_as(c) IN PushMapped(p, shr(p.left.val, p.right.val))
run_rotl(c) ==
    LET p == pop_value_pair_as(c) IN PushMapped(p, rotl(p.left.val, p.right.val))
run_rotr(c) ==
    LET p == pop_value_pair_as(c) IN PushMapped(p, rotr(p.left.val, p.right.val))
\* run_rem::<i32, i32>: rem returns a plain value, as div does.
run_rem(c) ==
    LET p == pop_value_pair_as(c)
        v == rem(p.left.val, p.right.val)
    IN
    IF p.error # "" THEN Err(p.error, p.ctx)
    ELSE IF v.panic THEN Panic(p.ctx)
    ELSE Ok(RunNextInstruction, push_value(p.ctx, I32(v.value)))

\* ------------------------------------------------------- execute_block
\* One execute_block invocation: the body slice it iterates, and where it
\* was called from (kind: the caller run_function / run_block / run_loop /
\* run_if; path: the opcode that called it, as indices from the function
\* body down; base: the offset of the slice in that opcode's body).
Activation(body, kind, path, base) ==
    [body |-> body, kind |-> kind, path |-> path, base |-> base]

CurrentBody == Last(calls).body
\* body[context.position]
Instr == CurrentBody[position + 1]
InstrPath == Last(calls).path \o <<Last(calls).base + position>>

\* The loop of execute_block is about to read and run an instruction.
Dispatch(name) ==
    /\ pc = "run"
    /\ calls # <<>>
    /\ outcome = NoOutcome
    /\ Len(trace) < MaxSteps
    /\ position < Len(CurrentBody)
    /\ Instr.op = name

Log ==
    trace' = Append(trace, [at |-> InstrPath, op |-> Instr.op,
                            vs |-> value_stack, fs |-> frame_stack,
                            locals |-> locals, pos |-> position,
                            depth |-> Len(calls)])

SetCtx(c) ==
    /\ value_stack' = c.value_stack
    /\ frame_stack' = c.frame_stack
    /\ locals' = c.locals
    /\ position' = c.position
    /\ module' = c.module

\* An error leaves every execute_block and run_function by `?`.
Fail(e, c) ==
    /\ SetCtx(c)
    /\ pc' = "err"
    /\ error' = e
    /\ outcome' = NoOutcome
    /\ UNCHANGED <<registry, function, calls, result>>

\* The handler's result reaches the match of the innermost execute_block.
Apply(r) ==
    IF r.error # "" THEN Fail(r.error, r.ctx)
    ELSE /\ SetCtx(r.ctx)
         /\ outcome' = r.outcome
         /\ UNCHANGED <<registry, function, calls, pc, result, error>>

\* execute_block is called on body: position = 0, then its loop.
Enter(c, body, kind, base) ==
    /\ SetCtx([c EXCEPT !.position = 0])
    /\ calls' = Append(calls, Activation(body, kind, InstrPath, base))
    /\ outcome' = NoOutcome
    /\ UNCHANGED <<registry, function, pc, result, error>>

RunUnreachable == Dispatch("Unreachable") /\ Log /\ Apply(run_unreachable(Ctx))

RunNop == Dispatch("Nop") /\ Log /\ Apply(run_nop(Ctx))

RunBlock ==
    /\ Dispatch("Block") /\ Log
    /\ Enter(run_block(Ctx, Instr.bt), Instr.body, "Block", 0)

RunLoop ==
    /\ Dispatch("Loop") /\ Log
    /\ Enter(run_loop(Ctx, Instr.bt), Instr.body, "Loop", 0)

RunIf ==
    /\ Dispatch("If") /\ Log
    /\ LET r == run_if(Ctx, Instr.bt, Instr.body) IN
       IF r.error # "" THEN Fail(r.error, r.ctx)
       ELSE IF r.enter
       THEN Enter(r.ctx,
                  SubSeq(Instr.body, r.begin_index + 1, r.end_index),
                  "If", r.begin_index)
       ELSE Apply(Ok(RunNextInstruction, r.ctx))

RunElse == Dispatch("Else") /\ Log /\ Apply(run_else(Ctx))

RunEnd == Dispatch("End") /\ Log /\ Apply(run_end(Ctx))

RunBr == Dispatch("Br") /\ Log /\ Apply(run_br(Ctx, Instr.arg))

RunBrIf == Dispatch("BrIf") /\ Log /\ Apply(run_br_if(Ctx, Instr.arg))

RunReturn == Dispatch("Return") /\ Log /\ Apply(run_return(Ctx))

RunDrop == Dispatch("Drop") /\ Log /\ Apply(run_drop(Ctx))

RunGetLocal == Dispatch("GetLocal") /\ Log /\ Apply(run_get_local(Ctx, Instr.arg))

RunSetLocal == Dispatch("SetLocal") /\ Log /\ Apply(run_set_local(Ctx, Instr.arg))

RunTeeLocal == Dispatch("TeeLocal") /\ Log /\ Apply(run_tee_local(Ctx, Instr.arg))

RunConst == Dispatch("I32Const") /\ Log /\ Apply(run_const(Ctx, I32(Instr.arg)))

RunSub == Dispatch("I32Sub") /\ Log /\ Apply(run_sub(Ctx))

\* The handler panicked: the call is abandoned where it stands.
Unwind(c) ==
    /\ SetCtx(c)
    /\ pc' = "panic"
    /\ outcome' = NoOutcome
    /\ UNCHANGED <<registry, function, calls, result, error>>

ApplyOrUnwind(r) ==
    IF "panic" \in DOMAIN r THEN Unwind(r.ctx) ELSE Apply(r)

RunI64Const == Dispatch("I64Const") /\ Log /\ Apply(run_const(Ctx, I64(Instr.arg)))

RunBrTable ==
    Dispatch("BrTable") /\ Log /\ Apply(run_br_table(Ctx, Instr.table, Instr.arg))

RunCall == Dispatch("Call") /\ Log /\ Apply(run_call(Ctx, Instr.arg))

RunCallIndirect ==
    Dispatch("CallIndirect") /\ Log /\ Apply(run_call_indirect(Ctx, Instr.arg))

RunCopysign ==
    /\ \E name \in {"F32Copysign", "F64Copysign"} : Dispatch(name)
    /\ Log /\ Apply(run_copysign(Ctx))

RunSelect == Dispatch("Select") /\ Log /\ Apply(run_select(Ctx))

RunLoad ==
    \E T \in {"I32", "I64"} :
      /\ Dispatch(T \o "Load") /\ Log
      /\ ApplyOrUnwind(run_load(Ctx, T, Instr.arg, Instr.arg2))

RunStore ==
    \E T \in {"I32", "I64"} :
      /\ Dispatch(T \o "Store") /\ Log
      /\ ApplyOrUnwind(run_store(Ctx, T, Instr.arg, Instr.arg2))

RunCurrentMemory ==
    Dispatch("CurrentMemory") /\ Log /\ Apply(run_current_memory(Ctx))

RunGrowMemory == Dispatch("GrowMemory") /\ Log /\ Apply(run_grow_memory(Ctx))

RunDiv ==
    \E T \in {"I32", "I64"}, signed \in BOOLEAN :
      /\ Dispatch(T \o (IF signed THEN "DivS" ELSE "DivU")) /\ Log
      /\ ApplyOrUnwind(run_div(Ctx, T, signed))

RunCompare ==
    \E name \in {"I32LtS", "I32GtS", "I32LeS", "I32GeS"} :
      /\ Dispatch(name) /\ Log
      /\ Apply(CASE name = "I32LtS" -> run_lt(Ctx)
                 [] name = "I32GtS" -> run_gt(Ctx)
                 [] name = "I32LeS" -> run_lte(Ctx)
                 [] name = "I32GeS" -> run_gte(Ctx))

RunRem == Dispatch("I32RemS") /\ Log /\ ApplyOrUnwind(run_rem(Ctx))

RunShift ==
    \E name \in {"I32Shl", "I32ShrS"} :
      /\ Dispatch(name) /\ Log
      /\ Apply(IF name = "I32Shl" THEN run_shl(Ctx) ELSE run_shr(Ctx))

RunRotate ==
    \E name \in {"I32Rotl", "I32Rotr"} :
      /\ Dispatch(name) /\ Log
      /\ Apply(IF name = "I32Rotl" THEN run_rotl(Ctx) ELSE run_rotr(Ctx))

\* The arms of the match in execute_block.
Handling(kind) ==
    /\ pc = "run"
    /\ calls # <<>>
    /\ outcome.kind = kind

\* What the PopFrame(index) arm returns once the frame is popped.
PopFrameReturns(index) ==
    IF index # 0 THEN PopFrame(index - 1) ELSE RunInstruction

OnRunInstruction ==
    /\ Handling("RunInstruction")
    /\ outcome' = NoOutcome
    /\ UNCHANGED <<registry, function, value_stack, frame_stack, locals, position,
                   module, calls, pc, result, error, trace>>

OnRunNextInstruction ==
    /\ Handling("RunNextInstruction")
    /\ position' = position + 1
    /\ outcome' = NoOutcome
    /\ UNCHANGED <<registry, function, value_stack, frame_stack, locals, module,
                   calls, pc, result, error, trace>>

OnPopFrame ==
    /\ Handling("PopFrame")
    /\ UNCHANGED trace
    /\ LET r == pop_frame(Ctx) IN
       IF r.error # "" THEN Fail(r.error, r.ctx)
       ELSE /\ SetCtx(r.ctx)
            /\ calls' = Front(calls)
            /\ outcome' = PopFrameReturns(outcome.index)
            /\ UNCHANGED <<registry, function, pc, result, error>>

OnReturn ==
    /\ Handling("Return")
    /\ calls' = Front(calls)
    /\ UNCHANGED <<registry, function, value_stack, frame_stack, locals, position,
                   module, outcome, pc, result, error, trace>>

\* ------------------------------------------------------ ProgramInstance
\* The threads calling into one ProgramInstance, and the calls they make in
\* total.
NumThreads == 2
MaxCalls == 3
Threads == 1..NumThreads
\* The names modules are registered and looked up under.
Names == {"a", "b"}

\* elements::Module, as far as instantiation reads it: the names of the
\* modules its import section refers to, and whether an instance can be
\* built of its sections.
Module(imports) == [imports |-> imports, valid |-> TRUE]
ModuleDefault == Module(<<>>)
\* A module ModuleInstance::new returns Err for.
ModuleInvalid == [ModuleDefault EXCEPT !.valid = FALSE]
DecodedModules == {ModuleDefault, Module(<<"a">>), ModuleInvalid}

\* Option<Arc<ModuleInstance>>: an Arc is the allocation (ptr, the number of
\* the call whose Arc::new made it) of the instance of a module.
NoInstance == [ptr |-> 0, imports |-> <<>>]
Arc(ptr, m) == [ptr |-> ptr, imports |-> m.imports]

\* HashMap::new()
HashMapNew == [n \in Names |-> NoInstance]
\* modules.entry(name): Entry::Occupied or Entry::Vacant
entry_overwrites(map, name) == "Vacant"

entry(map, name) ==
    IF map[name] # NoInstance THEN "Occupied" ELSE "Vacant"
\* entry.insert(value)
insert(map, name, value) == [map EXCEPT ![name] = value]
\* modules.get(name).cloned()
get(map, name) == map[name]

\* RwLock: one writer or any number of readers.
RwLockNew == [writer |-> 0, readers |-> {}]
\* write() returns once no other guard is alive.
write_shared(lock) == TRUE

write(lock) == lock.writer = 0 /\ lock.readers = {}
\* read() returns once no write guard is alive.
read_dirty(lock) == TRUE

read(lock) == lock.writer = 0

\* Result<(), Error> of add_module / Option<Arc<ModuleInstance>> of module.
NoReturn == [done |-> FALSE, error |-> "", value |-> NoInstance]
Returns(e, v) == [done |-> TRUE, error |-> e, value |-> v]

\* Result<ModuleInstance, Error> of ModuleInstance::new, in its Arc.
Built(e, v) == [error |-> e, value |-> v]

\* Mutant: the entry is filled with a default instance ahead of the
\* construction and stays when the construction fails.
EntryVacant_inserts_first(map, name, built) ==
    [modules |-> insert(map, name,
                        IF built.error # "" THEN Arc(1, ModuleDefault)
                        ELSE built.value),
     ret |-> Returns(built.error, NoInstance)]

\* The Entry::Vacant arm of add_module: `?` returns the error of
\* ModuleInstance::new before anything is inserted; else the instance is
\* inserted and the result is Ok(()).
EntryVacant(map, name, built) ==
    IF built.error # ""
    THEN [modules |-> map, ret |-> Returns(built.error, NoInstance)]
    ELSE [modules |-> insert(map, name, built.value),
          ret |-> Returns("", NoInstance)]

\* The call a thread made before its current one.
NoPrev == [op |-> "", name |-> "a", error |-> ""]
Prev(thread) ==
    [op |-> thread.op, name |-> thread.name, error |-> thread.ret.error]

\* A thread outside every call.
Idle ==
    [pc |-> "idle", op |-> "", name |-> "a", module |-> ModuleDefault,
     id |-> 0, import |-> 0, lookup |-> "a", found |-> NoInstance,
     ret |-> NoReturn, built |-> Built("", NoInstance), prev |-> NoPrev,
     called |-> HashMapNew, before |-> HashMapNew, after |-> HashMapNew,
     known |-> HashMapNew]

\* ProgramInstance::new
ProgramInstanceNew ==
    /\ modules = HashMapNew
    /\ rwlock = RwLockNew
    /\ threads = [t \in Threads |-> Idle]
    /\ issued = 0
    /\ registered = HashMapNew
    /\ oks = [n \in Names |-> 0]

\* Thread t calls add_module(name, m).
CallAddModule(t) ==
    /\ threads[t].pc = "idle"
    /\ issued < MaxCalls
    /\ \E name \in Names, m \in DecodedModules :
         threads' = [threads EXCEPT ![t] =
             [Idle EXCEPT !.pc = "write", !.op = "add_module",
                          !.name = name, !.module = m, !.id = issued + 1,
                          !.called = modules, !.prev = Prev(threads[t])]]
    /\ issued' = issued + 1
    /\ UNCHANGED <<function_vars, modules, rwlock, registered, oks>>

\* Thread t calls module(name).
CallModule(t) ==
    /\ threads[t].pc = "idle"
    /\ issued < MaxCalls
    /\ \E name \in Names :
         threads' = [threads EXCEPT ![t] =
             [Idle EXCEPT !.pc = "read", !.op = "module", !.name = name,
                          !.lookup = name, !.id = issued + 1,
                          !.called = modules, !.prev = Prev(threads[t])]]
    /\ issued' = issued + 1
    /\ UNCHANGED <<function_vars, modules, rwlock, registered, oks>>

\* let mut modules = self.essence.modules.write();
AddModuleWrite(t) ==
    /\ threads[t].pc = "write"
    /\ write(rwlock)
    /\ rwlock' = [rwlock EXCEPT !.writer = t]
    /\ threads' = [threads EXCEPT ![t].pc = "entry", ![t].before = modules]
    /\ UNCHANGED <<function_vars, modules, issued, registered, oks>>

\* match modules.entry(name.into()): the Occupied arm has the result, the
\* Vacant arm calls ModuleInstance::new.
AddModuleEntry(t) ==
    /\ threads[t].pc = "entry"
    /\ threads' =
         IF entry(modules, threads[t].name) = "Occupied"
         THEN [threads EXCEPT ![t].pc = "return",
                              ![t].ret = Returns("Program", NoInstance)]
         ELSE [threads EXCEPT ![t].pc = "new", ![t].import = 0]
    /\ UNCHANGED <<function_vars, modules, rwlock, issued, registered, oks>>

\* ModuleInstance::new(program, module): each import is resolved by
\* program.module(name) of the registry the instance refers back to; with
\* every import resolved the instance is built, or an error returned for
\* a module no instance can be built of.
ModuleInstanceNew(t) ==
    /\ threads[t].pc = "new"
    /\ threads' =
         IF threads[t].import < Len(threads[t].module.imports)
         THEN [threads EXCEPT
                 ![t].pc = "read",
                 ![t].lookup = threads[t].module.imports[threads[t].import + 1],
                 ![t].import = @ + 1]
         ELSE [threads EXCEPT
                 ![t].pc = "insert",
                 ![t].built =
                    IF threads[t].module.valid
                    THEN Built("", Arc(threads[t].id, threads[t].module))
                    ELSE Built("Initialization", NoInstance)]
    /\ UNCHANGED <<function_vars, modules, rwlock, issued, registered, oks>>

\* entry.insert(Arc::new(ModuleInstance::new(..)?)); Ok(())
AddModuleInsert(t) ==
    /\ threads[t].pc = "insert"
    /\ LET r == EntryVacant(modules, threads[t].name, threads[t].built) IN
       /\ modules' = r.modules
       /\ threads' = [threads EXCEPT ![t].pc = "return", ![t].ret = r.ret]
    /\ UNCHANGED <<function_vars, rwlock, issued, registered, oks>>

\* add_module returns: the write guard goes out of scope.
AddModuleReturn(t) ==
    /\ threads[t].pc = "return"
    /\ rwlock' = [rwlock EXCEPT !.writer = IF @ = t THEN 0 ELSE @]
    /\ threads' = [threads EXCEPT ![t].pc = "idle", ![t].after = modules]
    /\ LET name == threads[t].name
           ok == threads[t].ret.error = ""
       IN
       /\ registered' =
            IF ok /\ registered[name] = NoInstance
            THEN [registered EXCEPT
                    ![name] = Arc(threads[t].id, threads[t].module)]
            ELSE registered
       /\ oks' = IF ok THEN [oks EXCEPT ![name] = @ + 1] ELSE oks
    /\ UNCHANGED <<function_vars, modules, issued>>

\* self.modules.read()
ModuleRead(t) ==
    /\ threads[t].pc = "read"
    /\ read(rwlock)
    /\ rwlock' = [rwlock EXCEPT !.readers = @ \cup {t}]
    /\ threads' = [threads EXCEPT ![t].pc = "get"]
    /\ UNCHANGED <<function_vars, modules, issued, registered, oks>>

\* .get(name).cloned(), the read guard dropped with the statement: module
\* returns, to its caller or into ModuleInstance::new.
ModuleGet(t) ==
    /\ threads[t].pc = "get"
    /\ rwlock' = [rwlock EXCEPT !.readers = @ \ {t}]
    /\ LET found == get(modules, threads[t].lookup) IN
       threads' =
         IF threads[t].op = "module"
         THEN [threads EXCEPT ![t].pc = "idle",
                              ![t].ret = Returns("", found),
                              ![t].found = found,
                              ![t].after = modules,
                              ![t].known = registered]
         ELSE [threads EXCEPT ![t].pc = "new", ![t].found = found]
    /\ UNCHANGED <<function_vars, modules, issued, registered, oks>>

\* No run_function call is under way.
NoCall ==
    /\ function = [params |-> 0, locals |-> 0, ret |-> "NoResult",
                   body |-> <<End>>]
    /\ value_stack = <<>>
    /\ frame_stack = <<>>
    /\ locals = <<>>
    /\ position = 0
    /\ module = ModuleInstance(<<>>)
    /\ calls = <<>>
    /\ outcome = NoOutcome
    /\ pc = "idle"
    /\ result = NoValue
    /\ error = ""
    /\ trace = <<>>

ProgramInit == NoCall /\ ProgramInstanceNew

\* The steps of a call under way in thread t.
Step(t) ==
    \/ AddModuleWrite(t)
    \/ AddModuleEntry(t)
    \/ ModuleInstanceNew(t)
    \/ AddModuleInsert(t)
    \/ AddModuleReturn(t)
    \/ ModuleRead(t)
    \/ ModuleGet(t)

ProgramNext ==
    \E t \in Threads :
      \/ CallAddModule(t)
      \/ CallModule(t)
      \/ Step(t)

\* Every thread is scheduled again and again, and the lock is handed to
\* every thread that keeps asking for it.
ProgramSpec ==
    /\ ProgramInit
    /\ [][ProgramNext]_vars
    /\ \A t \in Threads : SF_vars(Step(t))

\* --------------------------------------------------------- run_function
\* FunctionContext::new
FunctionContextNew(instance, body, ret, args) ==
    push_frame([value_stack |-> <<>>, frame_stack |-> <<>>,
                locals |-> args, position |-> 0, module |-> instance],
               Len(body) - 1, ret)

\* The outermost execute_block has returned Ok: the match on block_type.
Finish ==
    /\ pc = "run"
    /\ calls = <<>>
    /\ UNCHANGED <<registry, function, calls, trace>>
    /\ IF function.ret # "NoResult"
       THEN LET p == pop_value(Ctx) IN
            /\ SetCtx(p.ctx)
            /\ outcome' = NoOutcome
            /\ IF p.error # ""
               THEN pc' = "err" /\ error' = p.error /\ result' = result
               ELSE pc' = "done" /\ result' = p.value /\ error' = error
       ELSE /\ pc' = "done"
            /\ result' = NoValue
            /\ outcome' = NoOutcome
            /\ UNCHANGED <<value_stack, frame_stack, locals, position,
                           module, error>>

\* run_function up to its call of execute_block on the function body.
Init ==
    \E f \in Functions, a \in Args, instance \in Modules :
      LET c == FunctionContextNew(instance, f.body, f.ret, ArgsOf(f.params, a))
      IN
      /\ function = f
      /\ value_stack = c.value_stack
      /\ frame_stack = c.frame_stack
      /\ locals = c.locals
      /\ position = 0
      /\ module = c.module
      /\ calls = <<Activation(f.body, "Function", <<>>, 0)>>
      /\ outcome = NoOutcome
      /\ pc = "run"
      /\ result = NoValue
      /\ error = ""
      /\ trace = <<>>
      /\ ProgramInstanceNew

Next ==
    \/ RunUnreachable
    \/ RunNop
    \/ RunBlock
    \/ RunLoop
    \/ RunIf
    \/ RunElse
    \/ RunEnd
    \/ RunBr
    \/ RunBrIf
    \/ RunReturn
    \/ RunDrop
    \/ RunGetLocal
    \/ RunSetLocal
    \/ RunTeeLocal
    \/ RunConst
    \/ RunSub
    \/ RunI64Const
    \/ RunBrTable
    \/ RunCall
    \/ RunCallIndirect
    \/ RunCopysign
    \/ RunSelect
    \/ RunLoad
    \/ RunStore
    \/ RunCurrentMemory
    \/ RunGrowMemory
    \/ RunDiv
    \/ RunCompare
    \/ RunRem
    \/ RunShift
    \/ RunRotate
    \/ OnRunInstruction
    \/ OnRunNextInstruction
    \/ OnPopFrame
    \/ OnReturn
    \/ Finish

Spec == Init /\ [][Next]_vars

\* ------------------------------------------------- reading the history
\* trace[j].at is the place of the j-th dispatched instruction: its index in
\* each body from the function body down.
Parent(path) == Front(path)
NextSibling(path) == Front(path) \o <<Last(path) + 1>>

RECURSIVE OpAtIn(_, _)
OpAtIn(body, path) ==
    IF Len(path) = 1 THEN body[path[1] + 1]
    ELSE OpAtIn(body[path[1] + 1].body, Tail(path))
\* The opcode of the function at a place.
OpAt(path) == OpAtIn(function.body, path)

Steps == 1..Len(trace)
Nested(j) == Len(trace[j].at) >= 2
\* The dispatch of the Block / Loop / If whose body the j-th instruction is in.
EnclIs(j, i) ==
    /\ i < j
    /\ trace[i].at = Parent(trace[j].at)
    /\ \A k \in (i + 1)..(j - 1) : trace[k].at # Parent(trace[j].at)
HasElse(body) == \E k \in 1..Len(body) : body[k].op = "Else"
\* The i32 condition on top of the stack when the i-th instruction ran.
CondAt(i) == trace[i].vs # <<>> /\ Last(trace[i].vs).val # 0
Returned == pc \in {"done", "err"}

\* C1: whenever run_function returns Ok, the value stack is empty once the
\* result has been taken, however the call ended (End, br, Return).
C1_ValueStackEmptyOnOk == pc = "done" => value_stack = <<>>

\* C2: whenever run_function returns Ok, the control-frame stack is empty.
C2_FrameStackEmptyOnOk == pc = "done" => frame_stack = <<>>

\* C3: when Return is executed at any nesting depth in a function with a
\* result type, run_function returns Ok with exactly the value that was on
\* top of the value stack at that moment, and no instruction is dispatched
\* after the Return.
C3_ReturnYieldsTop ==
    \A j \in Steps :
      (trace[j].op = "Return" /\ function.ret # "NoResult"
         /\ trace[j].vs # <<>>) =>
        /\ j = Len(trace)
        /\ pc # "err"
        /\ pc = "done" => result = Last(trace[j].vs)

C3_Witness ==
    /\ pc = "done"
    /\ \E j \in Steps :
         /\ trace[j].op = "Return"
         /\ Len(trace[j].at) = 3
         /\ Len(trace[j].vs) = 2
         /\ result = Last(trace[j].vs)
         /\ result # trace[j].vs[1]

\* C4: if Unreachable is executed, at the top level or inside any nesting of
\* bodies, run_function returns the error Trap, yields no value, and no
\* further instruction is dispatched.
C4_UnreachableTraps ==
    \A j \in Steps :
      trace[j].op = "Unreachable" =>
        /\ j = Len(trace)
        /\ pc = "err"
        /\ error = "Trap"
        /\ result = NoValue

C4_Witness ==
    /\ pc = "err"
    /\ trace # <<>>
    /\ Last(trace).op = "Unreachable"
    /\ Len(Last(trace).at) = 3

IfElseAt(i) == trace[i].op = "If" /\ HasElse(OpAt(trace[i].at).body)
IfNoElseAt(i) == trace[i].op = "If" /\ ~HasElse(OpAt(trace[i].at).body)

\* C5: for an If whose body is [then..., Else, else..., End] exactly one arm
\* runs: with a non-zero condition only instructions up to the Else, with a
\* zero condition only instructions after it; when the arm ends (at Else or
\* End) execution continues at the instruction after the If, with the arm's
\* result on top of the value stack.
C5_IfElseRunsOneArm ==
    \A i \in Steps :
      (IfElseAt(i) /\ trace[i].vs # <<>>) =>
        LET body == OpAt(trace[i].at).body IN
        /\ i = Len(trace) => pc = "run"
        /\ i < Len(trace) =>
             /\ Parent(trace[i + 1].at) = trace[i].at
             /\ IF CondAt(i) THEN Last(trace[i + 1].at) = 0
                ELSE /\ Last(trace[i + 1].at) >= 1
                     /\ body[Last(trace[i + 1].at)].op = "Else"
        /\ \A j \in Steps :
             (Nested(j) /\ EnclIs(j, i)) =>
               /\ IF CondAt(i)
                  THEN \A k \in 1..Last(trace[j].at) : body[k].op # "Else"
                  ELSE \E k \in 1..Last(trace[j].at) : body[k].op = "Else"
               /\ trace[j].op \in {"Else", "End"} =>
                    /\ j = Len(trace) => pc = "run"
                    /\ j < Len(trace) =>
                         /\ trace[j + 1].at = NextSibling(trace[i].at)
                         /\ OpAt(trace[i].at).bt # "NoResult" =>
                              /\ trace[j].vs # <<>>
                              /\ trace[j + 1].vs # <<>>
                              /\ Last(trace[j + 1].vs) = Last(trace[j].vs)

\* An arm of instance i has ended at its Else / End and execution went on.
ArmEnded(i, term) ==
    \E j \in Steps :
      /\ Nested(j) /\ EnclIs(j, i)
      /\ trace[j].op = term
      /\ j < Len(trace)

C5_Witness ==
    /\ pc = "done"
    /\ \E i1, i2 \in Steps :
         /\ IfElseAt(i1) /\ CondAt(i1) /\ ArmEnded(i1, "Else")
         /\ IfElseAt(i2) /\ ~CondAt(i2) /\ ArmEnded(i2, "End")

\* C6: for an If whose body holds no Else, a zero condition pushes no frame
\* and runs none of the body: but for the popped condition the value stack,
\* the frame stack and the locals are unchanged and execution continues with
\* the instruction after the If.  With a non-zero condition the body runs,
\* and when it ends at End its result is put above the entries that were
\* below the If's entry depth, none of which it replaces.
C6_IfWithoutElse ==
    \A i \in Steps :
      (IfNoElseAt(i) /\ trace[i].vs # <<>>) =>
        LET d == Len(trace[i].vs) - 1 IN
        IF ~CondAt(i)
        THEN /\ i = Len(trace) =>
                  /\ pc = "run"
                  /\ value_stack = Front(trace[i].vs)
                  /\ frame_stack = trace[i].fs
                  /\ locals = trace[i].locals
             /\ i < Len(trace) =>
                  /\ trace[i + 1].at = NextSibling(trace[i].at)
                  /\ trace[i + 1].vs = Front(trace[i].vs)
                  /\ trace[i + 1].fs = trace[i].fs
                  /\ trace[i + 1].locals = trace[i].locals
        ELSE /\ i = Len(trace) => pc = "run"
             /\ i < Len(trace) => trace[i + 1].at = trace[i].at \o <<0>>
             /\ \A j \in Steps :
                  (Nested(j) /\ EnclIs(j, i) /\ trace[j].op = "End") =>
                    /\ j = Len(trace) => pc = "run"
                    /\ j < Len(trace) =>
                         /\ trace[j + 1].at = NextSibling(trace[i].at)
                         /\ Len(trace[j].vs) >= d
                         /\ trace[j + 1].vs =
                              IF OpAt(trace[i].at).bt # "NoResult"
                              THEN Append(SubSeq(trace[j].vs, 1, d),
                                          Last(trace[j].vs))
                              ELSE SubSeq(trace[j].vs, 1, d)

C6_Witness ==
    /\ pc = "done"
    /\ \E i1, i2 \in Steps :
         /\ IfNoElseAt(i1) /\ CondAt(i1) /\ ArmEnded(i1, "End")
         /\ IfNoElseAt(i2) /\ ~CondAt(i2) /\ i2 < Len(trace)
         /\ Len(trace[i2].vs) >= 2

\* C7: a Block with signature Value(T) whose body ends by reaching its End
\* leaves the value stack equal to its content at block entry followed by
\* exactly one value, the one on top when End executed; execution continues
\* at the instruction after the Block.
C7_BlockEndLeavesEntryPlusResult ==
    \A i, j \in Steps :
      (trace[i].op = "Block" /\ OpAt(trace[i].at).bt # "NoResult"
         /\ Nested(j) /\ EnclIs(j, i) /\ trace[j].op = "End"
         /\ trace[j].vs # <<>>) =>
        /\ j = Len(trace) => pc = "run"
        /\ j < Len(trace) =>
             /\ trace[j + 1].at = NextSibling(trace[i].at)
             /\ trace[j + 1].vs = Append(trace[i].vs, Last(trace[j].vs))

\* C8: a loop whose body reaches its End without taking a branch ends the
\* loop: execution continues with the instruction after the Loop and the
\* body is not entered again; so the countdown loop entered with local 0 = 3
\* runs its body exactly 3 times.
C8_LoopEndExits ==
    /\ \A i, j \in Steps :
         (trace[i].op = "Loop" /\ Nested(j) /\ EnclIs(j, i)
            /\ trace[j].op = "End" /\ j < Len(trace)) =>
           trace[j + 1].at = NextSibling(trace[i].at)
    /\ (function.body \in {CountdownBody, CountdownI32Body} /\ trace # <<>>
          /\ trace[1].locals = <<I32(3)>>) =>
         /\ Cardinality({j \in Steps : trace[j].op = "Loop"}) <= 1
         /\ Cardinality({j \in Steps : trace[j].op = "TeeLocal"}) <= 3
         /\ pc # "err"

\* The j-th instruction is a br, or a br_if whose condition is non-zero.
BranchAt(j) == trace[j].op = "Br" \/ (trace[j].op = "BrIf" /\ CondAt(j))
Label(j) == OpAt(trace[j].at).arg
\* The value stack when the branch is taken (br_if has popped its condition).
BranchStack(j) ==
    IF trace[j].op = "BrIf" THEN Front(trace[j].vs) ELSE trace[j].vs
\* The branch targets the frame of a Block / Loop / If, not the outer frame.
TargetsConstruct(j) == Len(trace[j].at) - 1 - Label(j) >= 1
\* The place of the Block / Loop / If whose frame the branch targets.
TargetPlace(j) == SubSeq(trace[j].at, 1, Len(trace[j].at) - 1 - Label(j))
\* The frame the branch targets.
TargetFrame(j) == trace[j].fs[Len(trace[j].fs) - Label(j)]

\* Where the next instruction is dispatched after the branch of step j.
BrResumePlace(j) ==
    j < Len(trace) =>
      IF OpAt(TargetPlace(j)).op = "Loop"
      THEN /\ trace[j + 1].at = TargetPlace(j)
           /\ j + 1 < Len(trace) =>
                /\ trace[j + 2].at = TargetPlace(j) \o <<0>>
                /\ Len(trace[j + 2].fs) = Len(trace[j + 1].fs) + 1
      ELSE trace[j + 1].at = NextSibling(TargetPlace(j))

\* C9: a br whose target frame was pushed by Loop resumes execution at the
\* Loop opcode itself, so the body is entered again from its first
\* instruction with a newly pushed frame; a br whose target frame was pushed
\* by Block or If resumes at the instruction right after that construct.
C9_BrResumesAtTarget ==
    \A j \in Steps :
      (BranchAt(j) /\ TargetsConstruct(j)) =>
        /\ j = Len(trace) => pc = "run"
        /\ BrResumePlace(j)

\* C10: the values a br k transfers depend only on the target frame: with
\* signature Value(T) the value on top when br executed is on top after the
\* unwind, whatever the signatures of the k frames between; with NoResult the
\* branch needs no value and does not fail.  The entries below the target
\* frame's value_limit are the same after the branch as before it.
C10_BrTransfersByTarget ==
    \A j \in Steps :
      (BranchAt(j) /\ Label(j) < Len(trace[j].fs)) =>
        LET f == TargetFrame(j)
            before == BranchStack(j)
        IN
        /\ f.signature = "NoResult" => (j = Len(trace) => pc # "err")
        /\ (f.signature # "NoResult" /\ Len(before) > f.value_limit) =>
             /\ j = Len(trace) => pc # "err"
             /\ (j = Len(trace) /\ pc = "done") => result = Last(before)
             /\ j < Len(trace) =>
                  /\ trace[j + 1].vs # <<>>
                  /\ Last(trace[j + 1].vs) = Last(before)
        /\ (j < Len(trace) /\ Len(before) >= f.value_limit) =>
             SubSeq(trace[j + 1].vs, 1, f.value_limit) =
               SubSeq(before, 1, f.value_limit)

\* The j-th instruction is a br_table with its i32 index on the stack.
BrTableAt(j) ==
    /\ trace[j].op = "BrTable"
    /\ trace[j].vs # <<>>
    /\ Last(trace[j].vs).tag = "I32"
\* The label the index selects: a negative i32 is, unsigned, 2^31 or more,
\* beyond every table.
BrTableLabel(j) ==
    LET table == OpAt(trace[j].at).table
        index == Last(trace[j].vs).val
    IN IF index >= 0 /\ index < Len(table) THEN table[index + 1]
       ELSE OpAt(trace[j].at).arg
\* The context of the j-th dispatch once the top of the stack is popped.
PoppedCtx(j) ==
    [value_stack |-> Front(trace[j].vs), frame_stack |-> trace[j].fs,
     locals |-> trace[j].locals, position |-> position, module |-> module]
\* The handler of the last dispatched instruction has just returned.
JustHandled(j) ==
    /\ j = Len(trace)
    /\ pc = "run"
    /\ outcome # NoOutcome
    /\ Len(frame_stack) = Len(trace[j].fs)

\* C11: BrTable(table, default) pops the i32 index, reads it as unsigned
\* and then does what Br(table[index]) does when index < len(table) and
\* what Br(default) does otherwise, also for a negative index and for an
\* empty table: the same outcome in the same context, so the same unwinding
\* and the same place of resumption.
C11_BrTableActsAsBr ==
    \A j \in Steps :
      BrTableAt(j) =>
        LET label == BrTableLabel(j)
            place == SubSeq(trace[j].at, 1, Len(trace[j].at) - 1 - label)
        IN
        /\ JustHandled(j) =>
             /\ outcome = run_br(PoppedCtx(j), label).outcome
             /\ Ctx = run_br(PoppedCtx(j), label).ctx
        /\ (j = Len(trace) /\ pc = "err") =>
             Len(frame_stack) < Len(trace[j].fs)
        /\ (j < Len(trace) /\ place # <<>>) =>
             trace[j + 1].at =
               IF OpAt(place).op = "Loop" THEN place ELSE NextSibling(place)

C11_Witness ==
    /\ pc = "done"
    /\ \E j \in Steps :
         /\ BrTableAt(j)
         /\ Last(trace[j].vs).val < 0
         /\ OpAt(trace[j].at).table # <<>>
         /\ BrTableLabel(j) = 2
         /\ result = I32(30)

\* The j-th instruction is a select with (a, b, cond) on the stack.
SelectAt(j) ==
    /\ trace[j].op = "Select"
    /\ Len(trace[j].vs) >= 3
    /\ Last(trace[j].vs).tag = "I32"
\* The value stack the claim has select leave.
SelectLeaves(j) ==
    LET vs == trace[j].vs
        n == Len(vs)
    IN Append(SubSeq(vs, 1, n - 3),
              IF vs[n].val # 0 THEN vs[n - 2] ELSE vs[n - 1])

\* C12: Select pops (a, b, cond), cond on top, and pushes a when cond is
\* non-zero and b when it is zero: the value stack is two entries shorter
\* and the entries below the three operands are unchanged.
C12_SelectPicksByCond ==
    \A j \in Steps :
      SelectAt(j) =>
        /\ j = Len(trace) =>
             /\ pc = "run"
             /\ value_stack = SelectLeaves(j)
        /\ j < Len(trace) =>
             /\ trace[j + 1].at = NextSibling(trace[j].at)
             /\ trace[j + 1].vs = SelectLeaves(j)
             /\ Len(trace[j + 1].vs) = Len(trace[j].vs) - 2

C12_Witness ==
    /\ pc = "done"
    /\ \E j \in Steps :
         /\ SelectAt(j)
         /\ j < Len(trace)
         /\ Len(trace[j].vs) = 4
         /\ Last(trace[j].vs).val = 0
         /\ trace[j + 1].vs = <<trace[j].vs[1], trace[j].vs[3]>>
         /\ trace[j].vs[2] # trace[j].vs[3]

\* The j-th instruction is a tee_local of an existing local, with a value
\* on the stack.
TeeLocalAt(j) ==
    /\ trace[j].op = "TeeLocal"
    /\ trace[j].vs # <<>>
    /\ OpAt(trace[j].at).arg < Len(trace[j].locals)
\* The locals with local i set to the top of the stack, no other changed.
TeeLocalLeaves(j) ==
    [trace[j].locals EXCEPT ![OpAt(trace[j].at).arg + 1] = Last(trace[j].vs)]

\* C13: TeeLocal(i) sets local i to the value on top of the value stack and
\* leaves the value stack exactly as it was, the value still on top and the
\* depth unchanged; no other local changes.
C13_TeeLocalKeepsStack ==
    \A j \in Steps :
      TeeLocalAt(j) =>
        /\ j = Len(trace) =>
             /\ pc = "run"
             /\ value_stack = trace[j].vs
             /\ locals = TeeLocalLeaves(j)
        /\ j < Len(trace) =>
             /\ trace[j + 1].vs = trace[j].vs
             /\ trace[j + 1].locals = TeeLocalLeaves(j)

C13_Witness ==
    /\ pc = "done"
    /\ \E j \in Steps :
         /\ TeeLocalAt(j)
         /\ j < Len(trace)
         /\ OpAt(trace[j].at).arg = 1
         /\ Len(trace[j].vs) = 2
         /\ trace[j].locals[2] # Last(trace[j].vs)
         /\ trace[j + 1].locals = <<trace[j].locals[1], Last(trace[j].vs)>>

\* The instance of the call has a memory 0.
HasMemory == module.memory # <<>>
\* The handler of the j-th instruction has returned (or panicked).
Handled(j) == j < Len(trace) \/ pc # "run" \/ outcome # NoOutcome

\* C14: CurrentMemory pushes the current size of memory 0 in pages as a
\* value with tag I32, and GrowMemory pushes its result with tag I32;
\* neither ever pushes an I64.
C14_MemorySizeIsI32 ==
    \A j \in Steps :
      /\ (trace[j].op = "CurrentMemory" /\ HasMemory) =>
           /\ (j = Len(trace) /\ Handled(j)) =>
                /\ pc = "run"
                /\ value_stack =
                     Append(trace[j].vs, I32(module.memory[1].pages))
           /\ j < Len(trace) =>
                /\ Len(trace[j + 1].vs) = Len(trace[j].vs) + 1
                /\ Last(trace[j + 1].vs).tag = "I32"
      /\ (trace[j].op = "GrowMemory" /\ HasMemory /\ trace[j].vs # <<>>
            /\ Last(trace[j].vs).tag = "I32") =>
           /\ (j = Len(trace) /\ Handled(j)) =>
                /\ pc = "run"
                /\ Len(value_stack) = Len(trace[j].vs)
                /\ Last(value_stack).tag = "I32"
           /\ j < Len(trace) =>
                /\ Len(trace[j + 1].vs) = Len(trace[j].vs)
                /\ Last(trace[j + 1].vs).tag = "I32"

\* The loads and the stores, and the value type of each.
Loads == {"I32Load", "I64Load"}
Stores == {"I32Store", "I64Store"}
TypeOf(op) == SubSeq(op, 1, 3)
\* The j-th instruction is a load or a store with its operands on the stack:
\* the i32 base, and above it the value of a store.
MemoryAccessAt(j) ==
    LET vs == trace[j].vs IN
    \/ /\ trace[j].op \in Loads
       /\ vs # <<>>
       /\ Last(vs).tag = "I32"
    \/ /\ trace[j].op \in Stores
       /\ Len(vs) >= 2
       /\ Last(vs).tag = TypeOf(trace[j].op)
       /\ vs[Len(vs) - 1].tag = "I32"
\* The base operand of the access, and base + offset as the claim has it.
BaseAt(j) ==
    IF trace[j].op \in Loads THEN Last(trace[j].vs).val
    ELSE trace[j].vs[Len(trace[j].vs) - 1].val
ClaimedAddress(j) ==
    checked_add(U32FromI32(BaseAt(j)), U32FromI32(OpAt(trace[j].at).arg))
\* The j-th instruction is the k-th load or store of the call.
AccessIndex(j) ==
    Cardinality({i \in 1..j : trace[i].op \in Loads \cup Stores})

\* C15: every load and store accesses the address base + offset, base being
\* the i32 operand popped from the value stack and offset the immediate,
\* whatever the align immediate; when base + offset exceeds 2^32 - 1 the
\* call fails with Trap.
C15_AddressIsBasePlusOffset ==
    \A j \in Steps :
      (MemoryAccessAt(j) /\ HasMemory /\ Handled(j)) =>
        IF ClaimedAddress(j).some
        THEN /\ Len(module.accessed) >= AccessIndex(j)
             /\ module.accessed[AccessIndex(j)].addr = ClaimedAddress(j).value
        ELSE /\ j = Len(trace)
             /\ pc = "err"
             /\ error = "Trap"

\* The bytes of a value, least significant first, over the width of its
\* type: 4 bytes for an I32, 8 for an I64.
LittleEndian(v) ==
    LET u == U32FromI32(v.val)
        low == <<u.lo % 256, u.lo \div 256, u.hi % 256, u.hi \div 256>>
    IN IF v.tag = "I32" THEN low
       ELSE low \o (IF v.val < 0 THEN <<255, 255, 255, 255>>
                    ELSE <<0, 0, 0, 0>>)
\* The j-th instruction is a store of a value at an in-bounds address.
StoreAt(j) ==
    /\ trace[j].op \in Stores
    /\ MemoryAccessAt(j)
    /\ HasMemory
    /\ ClaimedAddress(j).some
    /\ ~OutOfBounds(module.memory[1], ClaimedAddress(j).value,
                    Len(LittleEndian(Last(trace[j].vs))))
\* The l-th instruction is a load of the type and from the address of the
\* store of step j, with no store between the two.
LoadOfStore(l, j) ==
    /\ l > j
    /\ trace[l].op = TypeOf(trace[j].op) \o "Load"
    /\ MemoryAccessAt(l)
    /\ ClaimedAddress(l) = ClaimedAddress(j)
    /\ \A k \in (j + 1)..(l - 1) : trace[k].op \notin Stores

\* C16: a store of a value v of type T at an in-bounds address writes the
\* bytes of v little-endian over exactly the width of T, and a load of type
\* T from the same address after it completes and pushes v.
C16_StoreLoadRoundTrip ==
    \A j \in Steps :
      (StoreAt(j) /\ Handled(j)) =>
        LET v == Last(trace[j].vs)
            bytes == LittleEndian(v)
            addr == ClaimedAddress(j).value
        IN
        /\ j = Len(trace) =>
             /\ pc = "run"
             /\ \A i \in 1..Len(bytes) :
                  ByteAt(module.memory[1], AddrPlus(addr, i - 1).value) =
                    bytes[i]
             /\ ByteAt(module.memory[1], AddrPlus(addr, Len(bytes)).value) = 0
        /\ \A l \in Steps :
             (LoadOfStore(l, j) /\ Handled(l)) =>
               /\ l = Len(trace) =>
                    /\ pc = "run"
                    /\ value_stack # <<>>
                    /\ Last(value_stack) = v
               /\ l < Len(trace) => Last(trace[l + 1].vs) = v

\* The integer divisions, and the j-th instruction being one with both
\* operands of its type on the stack.
Divisions == {"I32DivS", "I32DivU", "I64DivS", "I64DivU"}
DivAt(j) ==
    LET vs == trace[j].vs IN
    /\ trace[j].op \in Divisions
    /\ Len(vs) >= 2
    /\ Last(vs).tag = TypeOf(trace[j].op)
    /\ vs[Len(vs) - 1].tag = TypeOf(trace[j].op)
Dividend(j) == trace[j].vs[Len(trace[j].vs) - 1].val
Divisor(j) == Last(trace[j].vs).val
\* The operand pairs for which the division traps.  The least i64 is not
\* among the values an I64 holds here.
DivTraps(j) ==
    \/ Divisor(j) = 0
    \/ trace[j].op = "I32DivS" /\ Dividend(j) = MinI32 /\ Divisor(j) = -1

\* C17: I32/I64 DivS and DivU with a zero divisor, and DivS of INT_MIN by
\* -1, make run_function return the error Trap with no result; every other
\* operand pair yields a result, of the operands' type in place of the two
\* operands, and no error.
C17_DivisionTrapsAsError ==
    \A j \in Steps :
      (DivAt(j) /\ Handled(j)) =>
        IF DivTraps(j)
        THEN /\ j = Len(trace)
             /\ pc = "err"
             /\ error = "Trap"
             /\ result = NoValue
        ELSE /\ j = Len(trace) =>
                  /\ pc = "run"
                  /\ Len(value_stack) = Len(trace[j].vs) - 1
                  /\ Last(value_stack).tag = TypeOf(trace[j].op)
             /\ j < Len(trace) =>
                  /\ Len(trace[j + 1].vs) = Len(trace[j].vs) - 1
                  /\ Last(trace[j + 1].vs).tag = TypeOf(trace[j].op)

\* The opcodes that are not implemented.
NotImplemented == {"Call", "CallIndirect", "F32Copysign", "F64Copysign"}

\* C18: executing Call, CallIndirect, F32Copysign or F64Copysign, at any
\* nesting depth, makes run_function return the error NotImplemented: the
\* opcode pops nothing from the value stack before failing and no later
\* instruction is dispatched.
C18_NotImplementedFails ==
    \A j \in Steps :
      trace[j].op \in NotImplemented =>
        /\ j = Len(trace)
        /\ pc = "err"
        /\ error = "NotImplemented"
        /\ result = NoValue
        /\ value_stack = trace[j].vs

C18_Witness ==
    /\ pc = "err"
    /\ trace # <<>>
    /\ Last(trace).op = "Call"
    /\ Len(Last(trace).at) = 4
    /\ Len(value_stack) = 2

\* The locals the claim has at call entry for arguments args: the arguments
\* in order, then one zero for each declared local (all of type i32 here).
EntryLocals(args) == args \o [i \in 1..function.locals |-> I32(0)]
\* The j-th instruction is a get_local of a declared local that is not a
\* parameter and that no instruction has set before.
GetDeclaredLocalAt(j) ==
    LET index == OpAt(trace[j].at).arg IN
    /\ trace[j].op = "GetLocal"
    /\ index >= function.params
    /\ index < function.params + function.locals
    /\ \A i \in 1..(j - 1) :
         ~(trace[i].op \in {"SetLocal", "TeeLocal"}
             /\ OpAt(trace[i].at).arg = index)

\* C19: at call entry the locals vector holds the incoming arguments in
\* order at indices 0..n-1, followed by the remaining declared locals of
\* the function, each zero; so GetLocal(i) of a declared local that is not
\* an argument succeeds and pushes zero before any SetLocal to it.
C19_LocalsHoldArgsThenZeros ==
    /\ trace = <<>> =>
         \E a \in Args : locals = EntryLocals(ArgsOf(function.params, a))
    /\ \A j \in Steps :
         GetDeclaredLocalAt(j) =>
           /\ j = Len(trace) =>
                /\ pc = "run"
                /\ value_stack = Append(trace[j].vs, I32(0))
           /\ j < Len(trace) => trace[j + 1].vs = Append(trace[j].vs, I32(0))

\* The j-th instruction names a local beyond the locals vector; a value to
\* set is on the stack.
LocalOutOfRangeAt(j) ==
    /\ trace[j].op \in {"GetLocal", "SetLocal", "TeeLocal"}
    /\ OpAt(trace[j].at).arg >= Len(trace[j].locals)
    /\ trace[j].op # "GetLocal" => trace[j].vs # <<>>

\* C20: GetLocal, SetLocal or TeeLocal with an index greater than or equal
\* to the number of locals aborts the call with a Local error; the failing
\* instruction modifies no local, and the length of the locals vector never
\* changes during a call.
C20_LocalOutOfRangeFails ==
    /\ \A j \in Steps :
         LocalOutOfRangeAt(j) =>
           /\ j = Len(trace)
           /\ pc = "err"
           /\ error = "Local"
           /\ result = NoValue
           /\ locals = trace[j].locals
    /\ \A j \in Steps : Len(trace[j].locals) = Len(locals)

C20_Witness ==
    /\ pc = "err"
    /\ error = "Local"
    /\ trace # <<>>
    /\ Last(trace).op = "SetLocal"
    /\ OpAt(Last(trace).at).arg = 2
    /\ Len(locals) = 2
    /\ Len(trace) = 2

\* ---------------------------------------------------------------- C21
\* C21: when run_function returns Ok, the result is Some(v) exactly when the
\* signature declares a return type, and then v has the declared type; with
\* no declared return type the result is None whatever is on the stack.
C21_ReturnsDeclaredType ==
    pc = "done" =>
      IF function.ret = "NoResult" THEN result = NoValue
      ELSE result # NoValue /\ result.tag = function.ret
\* ---------------------------------------------------------------- C22
\* Thread t has returned from an add_module call, its last call.
AddModuleReturned(t) ==
    /\ threads[t].op = "add_module"
    /\ threads[t].pc = "idle"
    /\ threads[t].ret.done
\* The name was registered when that call took the registry lock.
AlreadyRegistered(t) == threads[t].before[threads[t].name] # NoInstance

\* C22: add_module with a name that is already registered fails with a
\* Program error and leaves the registry as it was: the name still maps to
\* the instance registered first and no other entry is added, removed or
\* replaced.
C22_DuplicateNameFails ==
    \A t \in Threads :
      AddModuleReturned(t) /\ AlreadyRegistered(t) =>
        /\ threads[t].ret.error = "Program"
        /\ threads[t].after = threads[t].before
        /\ threads[t].after[threads[t].name] = registered[threads[t].name]

\* A second add_module of a registered name has returned, with another
\* name registered beside it.
C22_Witness ==
    \E t \in Threads :
      /\ AddModuleReturned(t) /\ AlreadyRegistered(t)
      /\ threads[t].ret.error = "Program"
      /\ \E n \in Names \ {threads[t].name} : threads[t].before[n] # NoInstance
\* ---------------------------------------------------------------- C23
\* The instantiation of the module of t's call can succeed: nothing in it
\* waits for the registry and an instance can be built of it.
AbleToSucceed(t) ==
    threads[t].module.imports = <<>> /\ threads[t].module.valid
\* The name was not registered when t made its call.
CalledUnregistered(t) == threads[t].called[threads[t].name] = NoInstance

\* C23: of the add_module calls of one name, exactly one returns Ok and
\* every other returns a Program error, however the threads interleave, and
\* the name maps to the instance the successful call created.
C23_OneRegistrationWins ==
    \A t \in Threads :
      AddModuleReturned(t) /\ AbleToSucceed(t) =>
        LET n == threads[t].name IN
        /\ threads[t].ret.error \in {"", "Program"}
        /\ oks[n] = 1
        /\ registered[n] # NoInstance
        /\ modules[n] = registered[n]
        /\ threads[t].ret.error = "" =>
             registered[n] = Arc(threads[t].id, threads[t].module)

\* Two threads called add_module of one name while it was unregistered; one
\* has returned Ok and the other a Program error.
C23_Witness ==
    \E t \in Threads, u \in Threads :
      /\ t # u
      /\ AddModuleReturned(t) /\ AddModuleReturned(u)
      /\ threads[t].name = threads[u].name
      /\ CalledUnregistered(t) /\ CalledUnregistered(u)
      /\ threads[t].ret.error = ""
      /\ threads[u].ret.error = "Program"
\* ---------------------------------------------------------------- C24
\* Thread t has returned from a module(name) call, its last call.
ModuleReturned(t) ==
    /\ threads[t].op = "module"
    /\ threads[t].pc = "idle"
    /\ threads[t].ret.done

\* C24: module(name) returns the instance of the add_module of that name
\* that had returned Ok when the lookup read the registry, and None when
\* there was none (a registration still under way is not seen); a registered
\* name keeps its instance, so every later lookup returns the same one.
C24_LookupSeesCompletedRegistrations ==
    /\ \A t \in Threads :
         ModuleReturned(t) =>
           threads[t].ret.value = threads[t].known[threads[t].name]
    /\ \A n \in Names :
         registered[n] # NoInstance => modules[n] = registered[n]

\* A lookup called before its name was registered has returned the
\* instance, while another thread is inside a call of its own.
C24_Witness ==
    \E t \in Threads, u \in Threads :
      /\ t # u
      /\ ModuleReturned(t)
      /\ CalledUnregistered(t)
      /\ threads[t].ret.value # NoInstance
      /\ threads[t].ret.value = registered[threads[t].name]
      /\ threads[u].pc # "idle"
\* ---------------------------------------------------------------- C25
\* Thread t is inside an add_module call.
InAddModule(t) == threads[t].op = "add_module" /\ threads[t].pc # "idle"
\* Thread t waits for the registry lock and cannot have it.
Blocked(t) ==
    \/ threads[t].pc = "write" /\ ~write(rwlock)
    \/ threads[t].pc = "read" /\ ~read(rwlock)
\* A guard of another thread is alive.
HeldByAnother(t) ==
    \/ rwlock.writer \notin {0, t}
    \/ rwlock.readers \ {t} # {}

\* C25: every add_module call returns in the end, Ok or an error: a thread
\* waits for the registry lock only while another thread holds it, also
\* when the construction of the instance looks its imports up in the
\* registry under the write guard of add_module.
C25_AddModuleReturns ==
    /\ [](\A t \in Threads : Blocked(t) => HeldByAnother(t))
    /\ \A t \in Threads : InAddModule(t) ~> ~InAddModule(t)
\* ---------------------------------------------------------------- C26
\* The j-th instruction is a Br(k) with at least k + 1 frames live.
BrAt(j) == trace[j].op = "Br" /\ Label(j) < Len(trace[j].fs)
\* The frames below the target of the br of step j.
BelowTarget(j) ==
    SubSeq(trace[j].fs, 1, Len(trace[j].fs) - (Label(j) + 1))
\* The unwinding the last instruction started is over.
Unwound == outcome.kind # "PopFrame"

\* C26: a Br(k) executed with at least k + 1 frames live pops exactly k + 1
\* frames, one in each of k + 1 nested execute_block levels, and the next
\* instruction is dispatched in the level around the target, at the
\* position stored in the target frame; the frames below are untouched.
C26_BrPopsLabelPlusOneFrames ==
    \A j \in Steps :
      BrAt(j) =>
        /\ j = Len(trace) =>
             /\ pc # "err"
             /\ Unwound =>
                  /\ frame_stack = BelowTarget(j)
                  /\ Len(calls) = trace[j].depth - (Label(j) + 1)
        /\ j < Len(trace) =>
             /\ trace[j + 1].fs = BelowTarget(j)
             /\ trace[j + 1].depth = trace[j].depth - (Label(j) + 1)
             /\ trace[j + 1].pos = TargetFrame(j).position
             /\ Parent(trace[j + 1].at) = Parent(TargetPlace(j))
\* ---------------------------------------------------------------- C27
\* This step is a call of pop_frame that returns Ok.
PopFrameSucceeds ==
    /\ pc = "run" /\ calls # <<>> /\ outcome.kind = "PopFrame"
    /\ frame_stack # <<>>
    /\ pc' = "run"
\* What the claim has pop_frame leave of value stack vs for frame F.
FrameResult(F, vs) ==
    SubSeq(vs, 1, F.value_limit) \o
      (IF F.signature # "NoResult" THEN <<Last(vs)>> ELSE <<>>)

\* C27: a successful pop_frame of frame F leaves the first F.value_limit
\* entries of the value stack as they were, followed by the popped result
\* when F has a Value signature, and position = F.position; nothing is
\* inserted and no entry below F.value_limit is altered.
C27_PopFrameOnlyRemoves ==
    [][PopFrameSucceeds =>
         /\ value_stack' = FrameResult(Last(frame_stack), value_stack)
         /\ position' = Last(frame_stack).position]_vars
\* ---------------------------------------------------------------- C28
\* Every frame live at the j-th dispatch has its limit within the stack.
LimitsWithin(j) ==
    \A k \in 1..Len(trace[j].fs) :
      trace[j].fs[k].value_limit <= Len(trace[j].vs)

\* C28: for the bodies of the model, in which no instruction inside a
\* block, loop or if consumes a value pushed before the construct was
\* entered, every frame on the frame stack has value_limit <= the depth of
\* the value stack at every instruction dispatch, and pop_frame never
\* returns its FrameStack error.
C28_ValueLimitWithinStack ==
    /\ \A j \in Steps : LimitsWithin(j)
    /\ pc = "err" => error # "FrameStack"

\* An instruction is dispatched right after a frame was popped, inside a
\* construct whose frame has a limit above zero that the stack just meets.
C28_Witness ==
    \E j \in Steps :
      /\ j >= 2
      /\ trace[j - 1].op \in {"End", "Br", "BrIf"}
      /\ Len(trace[j].fs) >= 2
      /\ Last(trace[j].fs).value_limit >= 1
      /\ Last(trace[j].fs).value_limit = Len(trace[j].vs)
\* ---------------------------------------------------------------- C29
\* The binary opcodes whose operands are not interchangeable.
OrderedBinary ==
    {"I32Sub", "I32DivS", "I32RemS", "I32Shl", "I32ShrS", "I32Rotl",
     "I32Rotr", "I32LtS", "I32GtS", "I32LeS", "I32GeS"}
\* The operand pushed first and the operand pushed last before step j.
PushedFirst(j) == trace[j].vs[Len(trace[j].vs) - 1].val
PushedLast(j) == Last(trace[j].vs).val
\* The j-th instruction is such an opcode on two small i32 operands for
\* which it has a result.
BinaryAt(j) ==
    /\ trace[j].op \in OrderedBinary
    /\ Len(trace[j].vs) >= 2
    /\ PushedFirst(j) \in -100..100
    /\ PushedLast(j) \in -100..100
    /\ trace[j].op \in {"I32DivS", "I32RemS"} => PushedLast(j) # 0
    /\ trace[j].op \in {"I32Shl", "I32ShrS", "I32Rotl", "I32Rotr"} =>
         PushedLast(j) \in 1..24
\* The quotient of a by b truncated toward zero.
Quotient(a, b) ==
    LET abs(x) == IF x < 0 THEN -x ELSE x
        q == abs(a) \div abs(b)
    IN IF (a < 0) # (b < 0) THEN -q ELSE q
\* The i32 of the unsigned pattern low * 2^(32 - n), for low < 2^n.
TopBits(low, n) ==
    IF low >= 2^(n - 1)
    THEN MinI32 + ((low - 2^(n - 1)) * 2^(31 - n)) * 2
    ELSE (low * 2^(31 - n)) * 2
\* The unsigned pattern of a shifted right by n, the top n bits zero.
LogicalShr(a, n) ==
    IF a >= 0 THEN a \div 2^n
    ELSE ((a \div 2^n) + 2^(31 - n)) + 2^(31 - n)
\* What the opcode means for left operand a and right operand b.
Meaning(op, a, b) ==
    CASE op = "I32Sub" -> a - b
      [] op = "I32DivS" -> Quotient(a, b)
      [] op = "I32RemS" -> a - b * Quotient(a, b)
      [] op = "I32Shl" -> a * 2^b
      [] op = "I32ShrS" -> CHOOSE q \in -100..100 : q * 2^b <= a /\ a < (q + 1) * 2^b
      [] op = "I32Rotl" -> a * 2^b + (IF a < 0 THEN 2^b - 1 ELSE 0)
      [] op = "I32Rotr" -> TopBits(a % 2^b, b) + LogicalShr(a, b)
      [] op = "I32LtS" -> IF a < b THEN 1 ELSE 0
      [] op = "I32GtS" -> IF a > b THEN 1 ELSE 0
      [] op = "I32LeS" -> IF a <= b THEN 1 ELSE 0
      [] op = "I32GeS" -> IF a >= b THEN 1 ELSE 0
\* The value stack the claim has the j-th instruction leave.
BinaryLeaves(j) ==
    Append(SubSeq(trace[j].vs, 1, Len(trace[j].vs) - 2),
           I32(Meaning(trace[j].op, PushedFirst(j), PushedLast(j))))

\* C29: for every binary opcode the operand pushed first is the left one and
\* the operand pushed last the right one: [push a, push b, I32Sub] leaves
\* a - b, [push a, push b, I32LtS] leaves 1 exactly when a < b, and so for
\* div, rem, the shifts, the rotates and the other ordered comparisons.
C29_FirstPushedIsLeft ==
    \A j \in Steps :
      BinaryAt(j) =>
        /\ j = Len(trace) => pc = "run" /\ value_stack = BinaryLeaves(j)
        /\ j < Len(trace) => trace[j + 1].vs = BinaryLeaves(j)

\* A call has returned a - b for unequal operands pushed as a, then b.
C29_Witness ==
    /\ pc = "done"
    /\ \E j \in Steps :
         /\ BinaryAt(j)
         /\ trace[j].op = "I32Sub"
         /\ PushedFirst(j) = 5 /\ PushedLast(j) = -8
         /\ result = I32(13)
\* ---------------------------------------------------------------- C30
\* The loop of an execute_block invocation is about to read an instruction.
AtDispatch == pc = "run" /\ calls # <<>> /\ outcome = NoOutcome

\* C30: at every instruction dispatch (none follows a Return) the frame
\* stack holds as many frames as execute_block invocations are active; so it
\* is non-empty whenever execute_block is entered and whenever the
\* dispatcher calls pop_frame.
C30_FramesMatchInvocations ==
    /\ \A j \in Steps : Len(trace[j].fs) = trace[j].depth
    /\ AtDispatch => Len(frame_stack) = Len(calls)
    /\ (pc = "run" /\ calls # <<>> /\ outcome.kind = "PopFrame") =>
         frame_stack # <<>>

\* An instruction is dispatched three invocations deep after a branch was
\* taken inside a loop that has been entered again.
C30_Witness ==
    \E i \in Steps, j \in Steps :
      /\ i < j
      /\ BranchAt(i)
      /\ trace[j].op = "Loop"
      /\ \E k \in Steps : k > j /\ trace[k].depth >= 3
      /\ \E k \in Steps : k < i /\ trace[k].at = trace[j].at
\* ---------------------------------------------------------------- C31
\* body, and every body nested in it, ends with End.
RECURSIVE EndsWithEnd(_)
EndsWithEnd(body) ==
    /\ body # <<>>
    /\ Last(body).op = "End"
    /\ \A k \in 1..Len(body) :
         body[k].op \in {"Block", "Loop", "If"} => EndsWithEnd(body[k].body)

\* The construct dispatched at step i has been left by step j: a later
\* instruction is dispatched in the body that holds the construct.
LeftBy(i, j) ==
    /\ i < j
    /\ trace[j].depth = trace[i].depth
    /\ trace[j].pos > trace[i].pos
    /\ \E k \in Steps : i < k /\ k < j /\ trace[k].depth > trace[i].depth

\* C31: when every body ends with End, the position is an index into the
\* body being executed whenever execute_block reads body[position].
C31_PositionWithinBody ==
    (EndsWithEnd(function.body) /\ AtDispatch) =>
        position < Len(CurrentBody)

\* An instruction is about to be read after a block was left by a taken
\* branch and an if arm was left at its end.
C31_Witness ==
    /\ AtDispatch
    /\ EndsWithEnd(function.body)
    /\ position > 0
    /\ \E i \in Steps, j \in Steps :
         /\ trace[i].op \in {"Block", "Loop"}
         /\ LeftBy(i, j)
         /\ \E k \in Steps : i < k /\ k < j /\ BranchAt(k)
    /\ \E i \in Steps, j \in Steps :
         /\ trace[i].op = "If"
         /\ LeftBy(i, j)
         /\ \E k \in Steps :
              i < k /\ k < j /\ trace[k].op \in {"End", "Else"}
\* ---------------------------------------------------------------- C32
\* body holds no Loop opcode, at any depth.
RECURSIVE NoLoop(_)
NoLoop(body) ==
    \A k \in 1..Len(body) :
       /\ body[k].op # "Loop"
       /\ body[k].op \in {"Block", "If"} => NoLoop(body[k].body)

\* No instruction occurrence has been dispatched twice.
EachAtMostOnce ==
    \A i \in Steps, j \in Steps : i # j => trace[i].at # trace[j].at

\* Within one body the instructions are dispatched in ascending order.
MovesForward ==
    \A i \in Steps, j \in Steps :
      (i < j /\ Front(trace[i].at) = Front(trace[j].at)) =>
          Last(trace[i].at) < Last(trace[j].at)

\* The frame of every construct being executed resumes after the construct.
ResumesAfterConstruct ==
    AtDispatch =>
      \A k \in 2..Len(calls) :
        frame_stack[k].position > Last(calls[k].path) - calls[k - 1].base

\* C32: for a body without Loop, run_function goes on until it returns a
\* value, None or an error (it is never left in any other way and never
\* stands still before), each instruction occurrence is executed at most
\* once, the position only moves forward within a body and every frame
\* resumes after the construct that pushed it.
C32_LoopFreeTerminates ==
    NoLoop(function.body) =>
      /\ pc \in {"run", "done", "err"}
      /\ pc = "run" => (ENABLED Next)
      /\ Len(trace) < MaxSteps
      /\ EachAtMostOnce
      /\ MovesForward
      /\ ResumesAfterConstruct
\* ---------------------------------------------------------------- C33
\* The add_module call thread t has returned from failed in the
\* construction of the module instance.
ConstructionFailed(t) ==
    /\ AddModuleReturned(t)
    /\ threads[t].ret.error \notin {"", "Program"}
\* The call thread t made before its current one was an add_module of the
\* same name that failed in the construction of the instance.
AfterFailedConstruction(t) ==
    /\ threads[t].prev.op = "add_module"
    /\ threads[t].prev.name = threads[t].name
    /\ threads[t].prev.error \notin {"", "Program"}
\* Thread t holds no guard of the registry lock.
Released(t) == rwlock.writer # t /\ t \notin rwlock.readers

\* C33: an add_module that fails because the instance cannot be built
\* inserts nothing and releases the lock: the registry is as the call found
\* it, with the name unregistered; a module(name) that follows returns None
\* and an add_module of the name that follows is not rejected as a
\* duplicate (unless another call has registered the name meanwhile).
C33_FailedConstructionInsertsNothing ==
    /\ \A t \in Threads :
         ConstructionFailed(t) =>
           /\ threads[t].after = threads[t].before
           /\ threads[t].after[threads[t].name] = NoInstance
           /\ Released(t)
    /\ \A t \in Threads :
         (ModuleReturned(t) /\ AfterFailedConstruction(t)) =>
           (threads[t].ret.value # NoInstance =>
              /\ oks[threads[t].name] >= 1
              /\ threads[t].ret.value = registered[threads[t].name])
    /\ \A t \in Threads :
         (AddModuleReturned(t) /\ AfterFailedConstruction(t)) =>
           (threads[t].ret.error = "Program" => oks[threads[t].name] >= 1)
    /\ \A n \in Names :
         (oks[n] = 0 /\ \A t \in Threads : threads[t].pc # "return") =>
           modules[n] = NoInstance

\* After an add_module of a name failed in the construction, the same
\* thread has registered the name with another module, while the other
\* thread's module(name) in between had returned None.
C33_Witness ==
    \E t \in Threads, u \in Threads :
      /\ AddModuleReturned(t)
      /\ AfterFailedConstruction(t)
      /\ threads[t].ret.error = ""
      /\ modules[threads[t].name] = Arc(threads[t].id, threads[t].module)
      /\ ModuleReturned(u)
      /\ threads[u].name = threads[t].name
      /\ threads[u].ret.value = NoInstance
      /\ threads[u].id < threads[t].id
====
